---- MODULE Spec2Model ----
(***************************************************************************)
(* Model of the real-time audio engine of src/ws_audio.py: the sequencer   *)
(* and pause/resume state machine of SineRowPlayer, the fade controller,   *)
(* the highlight/notification queues of WebSocketHandler, and the aux ring *)
(* buffer shared by the capture thread and the engine.                     *)
(*                                                                         *)
(* Time is counted in samples.  One engine tick synthesizes BLOCK samples  *)
(* and the loop of _pure_audio_loop is paced at BLOCK/RATE, so the clock   *)
(* advances by BLOCK per tick.  The player reads the clock only through    *)
(* time.perf_counter() - row_start_time; the model keeps that difference   *)
(* in one variable, elapsed, saturated at MaxElapsed (no row time is       *)
(* above it, so no comparison with a row time can tell).  Setting              *)
(* row_start_time to perf_counter() is elapsed' = 0, _reset_state's        *)
(* row_start_time = 0.0 is elapsed' = MaxElapsed.                          *)
(* BLOCK and FADE_SAMPLES are scaled down                                  *)
(* from 1200 and 192000: a fade still spans several blocks, every fade     *)
(* length is a multiple of BLOCK, and the envelope value at the end of the *)
(* first fade-in block, (BLOCK-1)/FADE_SAMPLES, is above the 0.001 pause   *)
(* threshold, as in the source (1199/192000).                              *)
(***************************************************************************)
EXTENDS Integers, Sequences, FiniteSets, TLC

\* ---- program constants (scaled) ----
BLOCK == 2
FADE_SAMPLES == 4
FADE_TIME == FADE_SAMPLES
\* one full turn of a phase accumulator (2*pi) in model phase units
TWO_PI == 11
\* wifi_stream_target_latency
WIFI_TARGET == 3
\* queue.Queue(maxsize=10)
WIFI_QUEUE_MAX == 10
\* the modulation period of modSpeed 1, in samples
MOD_PERIOD_BASE == 6
\* the default phase of a row, 90 degrees
PHASE_DEFAULT == 8

\* bt_ring_buffer.shape[0]
RING_CAP == BLOCK * 8
\* max_consecutive_errors of _bt_read_loop (scaled from 50)
MAX_CONSECUTIVE_ERRORS == 3

\* ---- mixer gains, in units of 1e-8 ----
GAIN_ONE == 100000000
\* math.sin(math.radians(90.0 * (x / 100.0))) for x = 0..100, to 8 decimals
SinTable ==
  <<
     0, 1570732, 3141076, 4710645, 6279052, 7845910,
     9410831, 10973431, 12533323, 14090123, 15643447, 17192910,
     18738131, 20278730, 21814324, 23344536, 24868989, 26387305,
     27899111, 29404033, 30901699, 32391742, 33873792, 35347484,
     36812455, 38268343, 39714789, 41151436, 42577929, 43993917,
     45399050, 46792981, 48175367, 49545867, 50904142, 52249856,
     53582679, 54902282, 56208338, 57500525, 58778525, 60042023,
     61290705, 62524266, 63742399, 64944805, 66131187, 67301251,
     68454711, 69591280, 70710678, 71812630, 72896863, 73963109,
     75011107, 76040597, 77051324, 78043041, 79015501, 79968466,
     80901699, 81814972, 82708057, 83580736, 84432793, 85264016,
     86074203, 86863151, 87630668, 88376563, 89100652, 89802758,
     90482705, 91140328, 91775463, 92387953, 92977649, 93544403,
     94088077, 94608536, 95105652, 95579301, 96029369, 96455742,
     96858316, 97236992, 97591676, 97922281, 98228725, 98510933,
     98768834, 99002366, 99211470, 99396096, 99556196, 99691733,
     99802673, 99888987, 99950656, 99987663, 100000000
  >>
\* math.sin and math.cos of theta = radians(90 * x / 100); to 8 decimals the
\* cosine is the sine of the complementary angle
MixSin(x) == SinTable[x + 1]
MixCos(x) == SinTable[100 - x + 1]
\* round(g, 4)
Round4(g) == ((g + 5000) \div 10000) * 10000

\* ---- bounds of the model ----
MaxElapsed == 10
MaxSeqLen == 2
\* frames the capture device delivers in all, the largest read, and the
\* number of times the capture is set up again
MaxFrames == 20
MaxRead == 3
MaxResets == 1
\* reads that found the ring short since the last underrun log
MaxUnderruns == 2
\* capture threads started in all
MaxThreads == 2
\* the arguments of apply_dual_strength and scaled_amp run from -ArgMargin to
\* 9 + ArgMargin
ArgMargin == 3
\* blocks of wifi-stream-data accepted in all
MaxPushed == 12
\* sink processes and engine-loop threads started after the first
MaxRestarts == 2
\* the row modes tried run from -1 to MaxMode
MaxMode == 11

\* ---- optional values (Python None) ----
None == <<>>
Some(x) == <<x>>
Get(o) == o[1]

\* ---- rows: dicts with the keys the sequencer reads ----
RowA == [time |-> 4, frequency |-> 1, modSpeed |-> 1]
RowB == [time |-> 8, frequency |-> 2, modSpeed |-> 3]
RowZ == [time |-> 0, frequency |-> 1, modSpeed |-> 1]
\* a row longer than one fade and shorter than two
RowC == [time |-> 6, frequency |-> 1, modSpeed |-> 2]
\* a row longer than two fades
RowD == [time |-> 10, frequency |-> 3, modSpeed |-> 1]
\* a drum row (mode 8) and a heartbeat row (mode 10)
\* the phase of a row is in units of 11.25 degrees
RowDrum == [time |-> 8, frequency |-> 1, modSpeed |-> 2, mode |-> 8,
            phase |-> 2]
RowDrum9 == [time |-> 8, frequency |-> 1, modSpeed |-> 2, mode |-> 9,
             phase |-> 3]
RowHeart == [time |-> 8, frequency |-> 1, modSpeed |-> 2, mode |-> 10]
RowPool == {RowA, RowB}
\* the rows of the envelope families' specification
EnvelopeRows == {RowA, RowB, RowDrum, RowDrum9, RowHeart}
\* the rows of the fade controller's specification
FadeRows == {RowA, RowB, RowC, RowD}
RowInputs == {RowA, RowB, RowZ}

RECURSIVE SeqsUpTo(_, _)
SeqsUpTo(S, n) ==
  IF n = 0 THEN {<<>>}
  ELSE LET shorter == SeqsUpTo(S, n - 1)
       IN shorter \cup {Append(s, x) : s \in {t \in shorter : Len(t) = n - 1}, x \in S}

\* the rows lists of play-all: the sublists of <<RowZ, RowA, RowB>>
RowOrder(r) == IF r = RowZ THEN 0 ELSE IF r = RowA THEN 1 ELSE 2
SequenceInputs ==
  {s \in SeqsUpTo(RowInputs, MaxSeqLen) :
     /\ s # <<>>
     /\ \A i \in 1..(Len(s) - 1) : RowOrder(s[i]) < RowOrder(s[i + 1])}

CLEAR == -1

VARIABLES
  \* SineRowPlayer fields
  row, sequence_rows, current_row_index, is_playing_sequence, last_notified_row,
  fade_samples_remaining, fade_direction, fade_multiplier,
  \* time.perf_counter() - row_start_time
  elapsed,
  is_paused, pause_requested, resume_requested, saved_state,
  phase_accum, mod_phase_accum,
  \* the modulation cycle of the last block synthesized from the active row:
  \* the position in the cycle of its first sample and the position reached
  \* after its last (None: no block since the row was started or restored)
  env_cycle,
  wifi_stream_enabled, wifi_audio_queue,
  \* the number of wifi-stream-data blocks accepted so far; the queue holds
  \* each block as its number in the order of arrival
  wifi_accepted,
  \* WebSocketHandler fields
  highlight_queue, clear_highlight_pending, message_queue,
  \* engine thread: position in _generate_therapy_audio and its locals
  pc, loc_row, loc_t0, loc_next, loc_state,
  \* the therapy block of the tick: None (zeros) or what it was synthesized from;
  \* raised: the tick left _generate_therapy_audio through its except clause
  therapy, raised,
  \* observers of the active row: the number of blocks synthesized from it
  \* since it was started, whether it went through a pause and a resume,
  \* whether its elapsed time includes time spent in Paused; and what the
  \* first and the last are for the row of the snapshot
  row_blocks, row_resumed, row_skewed, saved_blocks, saved_skewed,
  \* highlight frames sent to the client since the last play-all that started
  \* a sequence
  wire,
  \* whether stop() may run in the middle of an engine tick
  preemptive,
  \* the aux ring; a frame is the number of its capture (0: the initial zeros)
  bt_ring_buffer, bt_ring_write_pos, bt_ring_read_pos, bt_ring_fill,
  \* the block the last _read_bt_from_ring returned
  bt_stereo,
  \* observers: frames captured so far, the last frame handed to the engine,
  \* ring resets so far
  captured, delivered, resets,
  \* _underrun_count (None until the first underrun creates it) and the count
  \* printed by the last underrun log (0: nothing logged yet)
  underrun_count, underrun_log,
  \* the capture: the handle (None or the PCM), the flags, the error count of
  \* the capture thread
  bt_input, bt_enabled, bt_read_running, consecutive_errors,
  \* the capture device ("present" or "gone"); what the last bt_input.read()
  \* of the capture thread gave; reads that failed in a row
  device, last_read, failed_reads,
  \* the capture threads in the order they were started, each with its
  \* position in _bt_read_loop: "loop" (before the test of the while),
  \* "recycling" (in the sleeps of lines 600 and 604), "done" (returned);
  \* and the function of the asyncio thread that waits in join(timeout=2)
  bt_threads, joining,
  \* the mixer: bt_gain (the music gain) and therapy_gain of the player; the
  \* reply to the last set-mix and the slider value it set (-1: none yet)
  bt_gain, therapy_gain, mix_reply, last_mix,
  \* the gains of the block last handed to the sink (None before the first)
  mixed_signal,
  \* the output sink: the state of the aplay process of _alsa_process and
  \* the number of processes started; the engine loop: _audio_running, the
  \* threads inside the while loop of _pure_audio_loop, the threads that
  \* left it and have not reached its last line, and the threads started
  alsa_process, alsa_spawned, audio_running, audio_loops, audio_exiting,
  threads_started,
  \* the client's connection: whether it is open (the websocket is in
  \* self.clients), the frame the handler answered the last message with,
  \* and whether the model keeps that frame
  ws_open, ws_sent, ws_traced,
  \* the local messages_to_send of a _process_queued_messages that has
  \* copied the queue and not yet cleared it (None otherwise)
  messages_to_send,
  \* _route_audio_to_speakers: the row's mode, one sample of each of the four
  \* modulated outputs, and the speaker signals routed from them (None: not
  \* routed yet)
  route_mode, modulated_outputs, speaker_signals,
  \* apply_dual_strength: its arguments (user_val None or a number) and what
  \* it returned (None: not called yet)
  matrix_val, user_val, dual_strength,
  \* scaled_amp: its arguments and the amp it returned, as the numerator of
  \* amp / 90.0 (None: not called yet)
  strength_step, trim_step, amp,
  \* the envelope (numerators over FADE_SAMPLES, one per sample) applied to
  \* the block last synthesized since the last fade-in or reset (empty when
  \* there is none)
  fade_envelope

playerVars == <<row, sequence_rows, current_row_index, is_playing_sequence,
                last_notified_row, fade_samples_remaining, fade_direction,
                fade_multiplier, fade_envelope, elapsed, is_paused,
                pause_requested,
                resume_requested, saved_state, phase_accum, mod_phase_accum,
                env_cycle>>
wifiVars == <<wifi_stream_enabled, wifi_audio_queue, wifi_accepted>>
handlerVars == <<highlight_queue, clear_highlight_pending, message_queue>>
engineVars == <<pc, loc_row, loc_t0, loc_next, loc_state, therapy, raised>>
obsVars == <<row_blocks, row_resumed, row_skewed, saved_blocks, saved_skewed>>
ringVars == <<bt_ring_buffer, bt_ring_write_pos, bt_ring_read_pos, bt_ring_fill,
              bt_stereo, captured, delivered, resets, underrun_count,
              underrun_log>>
threadVars == <<bt_threads, joining>>
captureVars == <<bt_input, bt_enabled, bt_read_running, consecutive_errors,
                 device, last_read, failed_reads, threadVars>>
mixVars == <<bt_gain, therapy_gain, mix_reply, last_mix>>
gainVars == <<matrix_val, user_val, dual_strength, strength_step, trim_step, amp>>
routeVars == <<route_mode, modulated_outputs, speaker_signals>>
\* the variables of the helpers the sequencer does not touch
helperVars == <<gainVars, routeVars>>
clientVars == <<ws_open, ws_sent, ws_traced, messages_to_send>>
sinkVars == <<alsa_process, alsa_spawned, audio_running, audio_loops,
              audio_exiting, threads_started>>
sequencerVars == <<playerVars, wifiVars, handlerVars, engineVars, obsVars, wire,
                   mixVars, mixed_signal, helperVars, clientVars, sinkVars>>
vars == <<sequencerVars, preemptive, ringVars, captureVars>>

\* __init__ ends with ensure_stream (line 142): the sink process and the
\* loop thread are started
InitSink ==
  /\ alsa_process = "alive"
  /\ alsa_spawned = 1
  /\ audio_running = TRUE
  /\ audio_loops = 1
  /\ audio_exiting = 0
  /\ threads_started = 1

InitPlayer ==
  /\ InitSink
  /\ row = None
  /\ sequence_rows = None
  /\ current_row_index = 0
  /\ is_playing_sequence = FALSE
  /\ last_notified_row = -1
  /\ fade_samples_remaining = 0
  /\ fade_direction = 0
  /\ fade_multiplier = 0
  /\ elapsed = MaxElapsed
  /\ is_paused = FALSE
  /\ pause_requested = FALSE
  /\ resume_requested = FALSE
  /\ saved_state = None
  /\ phase_accum = 0
  /\ mod_phase_accum = 0
  /\ env_cycle = None
  /\ wifi_stream_enabled = FALSE
  /\ wifi_accepted = 0
  /\ wifi_audio_queue = <<>>
  /\ highlight_queue = <<>>
  /\ clear_highlight_pending = FALSE
  /\ message_queue = <<>>
  /\ pc = "idle"
  /\ loc_row = None
  /\ loc_t0 = 0
  /\ loc_next = 0
  /\ loc_state = None
  /\ therapy = None
  /\ raised = FALSE
  /\ row_blocks = 0
  /\ row_resumed = FALSE
  /\ row_skewed = FALSE
  /\ saved_blocks = 0
  /\ saved_skewed = FALSE
  /\ wire = <<>>
  /\ bt_ring_buffer = [i \in 0..(RING_CAP - 1) |-> 0]
  /\ bt_ring_write_pos = 0
  /\ bt_ring_read_pos = 0
  /\ bt_ring_fill = 0
  /\ bt_stereo = <<>>
  /\ captured = 0
  /\ delivered = 0
  /\ resets = 0
  /\ underrun_count = None
  /\ underrun_log = 0
  /\ bt_input = None
  /\ bt_enabled = FALSE
  /\ bt_read_running = FALSE
  /\ consecutive_errors = 0
  /\ device = "present"
  /\ last_read = "unread"
  /\ failed_reads = 0
  /\ bt_threads = <<>>
  /\ joining = "none"
  /\ bt_gain = GAIN_ONE \div 2
  /\ therapy_gain = GAIN_ONE
  /\ mix_reply = "none"
  /\ last_mix = -1
  /\ mixed_signal = None
  /\ fade_envelope = <<>>

\* no call of apply_dual_strength or scaled_amp yet
InitGain ==
  /\ matrix_val = 0
  /\ user_val = None
  /\ dual_strength = None
  /\ strength_step = 0
  /\ trim_step = 0
  /\ amp = None

\* one client connected; its replies are not kept
InitUntraced ==
  /\ ws_open = TRUE
  /\ ws_sent = "none"
  /\ ws_traced = FALSE
  /\ messages_to_send = None

\* nothing routed yet
InitRoute ==
  /\ route_mode = 0
  /\ modulated_outputs = <<0, 0, 0, 0>>
  /\ speaker_signals = None

\* every command is handled between two ticks
Init == InitPlayer /\ InitGain /\ InitRoute /\ InitUntraced /\ preemptive = FALSE

\* stop is handled at any point of a tick (the control thread and the engine
\* thread share the player without a lock); the other commands between ticks
InitRace == InitPlayer /\ InitGain /\ InitRoute /\ InitUntraced /\ preemptive = TRUE

\* ---- fade controller ----
StartFadeIn ==
  /\ fade_samples_remaining' = FADE_SAMPLES
  /\ fade_direction' = 1
  /\ fade_multiplier' = 0
  /\ fade_envelope' = <<>>

\* _start_fade_out leaves fade_multiplier as it is
StartFadeOut ==
  /\ fade_samples_remaining' = FADE_SAMPLES
  /\ fade_direction' = -1
  /\ UNCHANGED <<fade_multiplier, fade_envelope>>

Min(a, b) == IF a < b THEN a ELSE b
Max(a, b) == IF a > b THEN a ELSE b

\* fade_multiplier is kept as a numerator over FADE_SAMPLES
FadeBlockLast(dir, rem, n) ==
  IF dir = 1 THEN (FADE_SAMPLES - rem) + (n - 1)
  ELSE Max(0, rem - (n - 1))

\* lines 952-953, 956 and 958-995: the envelope of the block, one value per
\* sample: ones when no fade is on; the ramp from the current position for
\* the samples of the fade, then the final multiplier; final: fade_multiplier
\* as the block leaves it
FadeEnvelope(final) ==
  IF fade_direction = 0 /\ fade_samples_remaining <= 0
  THEN [i \in 1..BLOCK |-> FADE_SAMPLES]
  ELSE IF fade_samples_remaining > 0
  THEN LET samples_to_process == Min(BLOCK, fade_samples_remaining)
       IN [i \in 1..BLOCK |->
             IF i <= samples_to_process
             THEN IF fade_direction = 1
                  THEN (FADE_SAMPLES - fade_samples_remaining) + (i - 1)
                  ELSE IF fade_direction = -1
                  THEN Max(0, fade_samples_remaining - (i - 1))
                  ELSE FADE_SAMPLES
             ELSE final]
  ELSE [i \in 1..BLOCK |-> fade_multiplier]

ApplyFade ==
  IF fade_direction = 0 /\ fade_samples_remaining <= 0
  THEN /\ fade_envelope' = FadeEnvelope(fade_multiplier)
       /\ UNCHANGED <<fade_samples_remaining, fade_direction, fade_multiplier>>
  ELSE IF fade_samples_remaining > 0
  THEN LET n == Min(BLOCK, fade_samples_remaining)
           rem == fade_samples_remaining - n
       IN /\ fade_samples_remaining' = rem
          /\ fade_envelope' = FadeEnvelope(fade_multiplier')
          /\ IF rem <= 0
             THEN /\ fade_multiplier' =
                       IF fade_direction = 1 THEN FADE_SAMPLES
                       ELSE IF fade_direction = -1 THEN 0
                       ELSE fade_multiplier
                  /\ fade_direction' = 0
             ELSE /\ fade_multiplier' =
                       IF fade_direction \in {1, -1}
                       THEN FadeBlockLast(fade_direction, fade_samples_remaining, n)
                       ELSE fade_multiplier
                  /\ UNCHANGED fade_direction
  ELSE /\ fade_envelope' = FadeEnvelope(fade_multiplier)
       /\ UNCHANGED <<fade_samples_remaining, fade_direction, fade_multiplier>>

\* fade_multiplier <= 0.001
NearZero(m) == m * 1000 <= FADE_SAMPLES

ResetState ==
  /\ phase_accum' = 0
  /\ mod_phase_accum' = 0
  /\ env_cycle' = None
  /\ last_notified_row' = -1
  /\ fade_samples_remaining' = 0
  /\ fade_direction' = 0
  /\ fade_multiplier' = 0
  /\ fade_envelope' = <<>>
  /\ elapsed' = MaxElapsed

\* ---- pause / resume snapshot ----
SaveCurrentState ==
  IF row = None THEN None
  ELSE Some([row_data |-> Get(row),
             elapsed_time |-> elapsed,
             sequence_rows |-> sequence_rows,
             current_row_index |-> current_row_index,
             is_playing_sequence |-> is_playing_sequence,
             phase_accum |-> phase_accum,
             mod_phase_accum |-> mod_phase_accum])

\* restore_state that leaves the modulation phase where it is
RestoreStateKeepsModPhase(st) ==
  /\ row' = Some(st.row_data)
  /\ sequence_rows' = st.sequence_rows
  /\ current_row_index' = st.current_row_index
  /\ is_playing_sequence' = st.is_playing_sequence
  /\ phase_accum' = st.phase_accum
  /\ UNCHANGED mod_phase_accum
  /\ env_cycle' = None
  /\ elapsed' = st.elapsed_time
  /\ is_paused' = FALSE
  /\ StartFadeIn

\* restore_state that restarts the row timer
RestoreStateRestartsTimer(st) ==
  /\ row' = Some(st.row_data)
  /\ sequence_rows' = st.sequence_rows
  /\ current_row_index' = st.current_row_index
  /\ is_playing_sequence' = st.is_playing_sequence
  /\ phase_accum' = st.phase_accum
  /\ mod_phase_accum' = st.mod_phase_accum
  /\ env_cycle' = None
  /\ elapsed' = 0
  /\ is_paused' = FALSE
  /\ StartFadeIn

\* the assignments of restore_state for a state with every key
RestoreState(st) ==
  /\ row' = Some(st.row_data)
  /\ sequence_rows' = st.sequence_rows
  /\ current_row_index' = st.current_row_index
  /\ is_playing_sequence' = st.is_playing_sequence
  /\ phase_accum' = st.phase_accum
  /\ mod_phase_accum' = st.mod_phase_accum
  /\ env_cycle' = None
  /\ elapsed' = st.elapsed_time
  /\ is_paused' = FALSE
  /\ StartFadeIn

\* the keys restore_state reads, in the order of lines 187-196
StateKeys ==
  <<"row_data", "sequence_rows", "current_row_index", "is_playing_sequence",
    "phase_accum", "mod_phase_accum", "elapsed_time">>

\* restore_state reaches the assignment from key number n: no key before it
\* is missing from the state (a missing key raises KeyError, line 204)
Reaches(st, n) == \A i \in 1..n : StateKeys[i] \in DOMAIN st

\* restore_state returns True: every key is there
Restorable(st) == Reaches(st, Len(StateKeys))

\* restore_state on a state that lacks a key: the assignments before the
\* KeyError have been made, is_paused and the fade are not reached
RestoreStateFails(st) ==
  /\ row' = IF Reaches(st, 1) THEN Some(st.row_data) ELSE row
  /\ sequence_rows' = IF Reaches(st, 2) THEN st.sequence_rows ELSE sequence_rows
  /\ current_row_index' =
       IF Reaches(st, 3) THEN st.current_row_index ELSE current_row_index
  /\ is_playing_sequence' =
       IF Reaches(st, 4) THEN st.is_playing_sequence ELSE is_playing_sequence
  /\ phase_accum' = IF Reaches(st, 5) THEN st.phase_accum ELSE phase_accum
  /\ mod_phase_accum' =
       IF Reaches(st, 6) THEN st.mod_phase_accum ELSE mod_phase_accum
  /\ env_cycle' = None
  /\ UNCHANGED <<elapsed, is_paused, fade_samples_remaining, fade_direction,
                 fade_multiplier, fade_envelope>>

\* ---- sequencer ----
ValidRows(rows) == SelectSeq(rows, LAMBDA r : r.time > 0 /\ r.frequency > 0)

\* _start_sequence_row, lines 890-893: the guard and the row switch
StartRowGuard(rows, index) == rows # None /\ index < Len(rows)

StartRowHead(rows, index) ==
  /\ current_row_index' = index
  /\ row' = Some(rows[index + 1])

\* _start_sequence_row that queues no highlight
StartRowTailUnnotified(index, queue) ==
  /\ elapsed' = 0
  /\ phase_accum' = 0
  /\ mod_phase_accum' = 0
  /\ env_cycle' = None
  /\ StartFadeIn
  /\ row_blocks' = 0
  /\ row_resumed' = FALSE
  /\ row_skewed' = FALSE
  /\ highlight_queue' = queue
  /\ UNCHANGED last_notified_row

\* _start_sequence_row, lines 894-903: timer, phases, fade-in, highlight
StartRowTail(index, queue) ==
  /\ elapsed' = 0
  /\ phase_accum' = 0
  /\ mod_phase_accum' = 0
  /\ env_cycle' = None
  /\ StartFadeIn
  /\ row_blocks' = 0
  /\ row_resumed' = FALSE
  /\ row_skewed' = FALSE
  /\ IF index # last_notified_row
     THEN /\ highlight_queue' = Append(queue, index)
          /\ last_notified_row' = index
     ELSE /\ highlight_queue' = queue
          /\ UNCHANGED last_notified_row

\* ---- engine thread: one tick of _pure_audio_loop, in steps ----
fadeVars == <<fade_samples_remaining, fade_direction, fade_multiplier,
              fade_envelope>>
pauseVars == <<is_paused, pause_requested, resume_requested, saved_state>>
seqVars == <<sequence_rows, current_row_index, is_playing_sequence>>
phaseVars == <<phase_accum, mod_phase_accum, env_cycle>>
locVars == <<loc_row, loc_t0, loc_next, loc_state>>

\* line 319-320: a requested pause latches now
LatchDue ==
  /\ pause_requested
  /\ ~is_paused
  /\ \/ (fade_direction = -1 /\ fade_samples_remaining <= 0)
     \/ NearZero(fade_multiplier)

\* ---- the output sink and the engine loop ----
\* line 1056: a thread is inside the while loop of _pure_audio_loop
LoopRunning == audio_loops > 0 /\ audio_running

\* lines 1060-1067 and 1079-1081: the block is written to a live sink; a
\* sink process that has ended (poll() is not None, or the write raises
\* BrokenPipeError) makes the thread break out of the loop
LoopWrite ==
  IF alsa_process = "alive"
  THEN UNCHANGED sinkVars
  ELSE /\ audio_loops' = 0
       /\ audio_exiting' = audio_exiting + audio_loops
       /\ UNCHANGED <<alsa_process, alsa_spawned, audio_running, threads_started>>

\* line 1087, the last line of _pure_audio_loop
LoopEnds ==
  /\ audio_exiting > 0
  /\ audio_exiting' = audio_exiting - 1
  /\ audio_running' = FALSE
  /\ UNCHANGED <<alsa_process, alsa_spawned, audio_loops, threads_started>>

\* ensure_stream that starts a loop thread whatever _audio_running says
EnsureStreamAlwaysStarts(popen_ok) ==
  IF alsa_process # "alive" /\ ~popen_ok
  THEN UNCHANGED sinkVars
  ELSE /\ alsa_process # "alive" => alsa_spawned < 1 + MaxRestarts
       /\ alsa_process' = "alive"
       /\ alsa_spawned' =
            IF alsa_process = "alive" THEN alsa_spawned ELSE alsa_spawned + 1
       /\ threads_started < 1 + MaxRestarts
       /\ audio_running' = TRUE
       /\ audio_loops' = audio_loops + 1
       /\ threads_started' = threads_started + 1
       /\ UNCHANGED audio_exiting

\* ensure_stream, lines 827-861, on the sink and the loop: _init_alsa_output
\* (lines 222-248) keeps a live process and starts aplay otherwise (popen_ok:
\* Popen did not raise); a loop thread is started only when _audio_running is
\* not set
EnsureStream(popen_ok) ==
  IF alsa_process # "alive" /\ ~popen_ok
  THEN UNCHANGED sinkVars
  ELSE /\ alsa_process # "alive" => alsa_spawned < 1 + MaxRestarts
       /\ alsa_process' = "alive"
       /\ alsa_spawned' =
            IF alsa_process = "alive" THEN alsa_spawned ELSE alsa_spawned + 1
       /\ IF audio_running
          THEN UNCHANGED <<audio_running, audio_loops, audio_exiting,
                           threads_started>>
          ELSE /\ threads_started < 1 + MaxRestarts
               /\ audio_running' = TRUE
               /\ audio_loops' = audio_loops + 1
               /\ threads_started' = threads_started + 1
               /\ UNCHANGED audio_exiting

\* lines 837-845 of ensure_stream: with the loop running, a capture that is
\* enabled and whose read thread has stopped gets its ring emptied and its
\* read thread started again
BtRestartDue ==
  audio_running /\ bt_enabled /\ bt_input # None /\ ~bt_read_running

\* lines 271-320: fresh zero block; the WiFi-stream branch, or the pause test
TickBegin ==
  /\ UNCHANGED <<preemptive, ringVars, captureVars, mixVars, mixed_signal, helperVars,
                 clientVars, sinkVars>>
  /\ pc = "idle"
  /\ LoopRunning
  /\ raised' = FALSE
  /\ IF wifi_stream_enabled
     THEN LET q == wifi_audio_queue
              kept == IF Len(q) > WIFI_TARGET
                      THEN SubSeq(q, Len(q) - WIFI_TARGET + 1, Len(q))
                      ELSE q
          IN /\ wifi_audio_queue' = IF kept = <<>> THEN <<>> ELSE Tail(kept)
             /\ therapy' = IF kept = <<>> THEN None ELSE <<"wifi", Head(kept)>>
             /\ pc' = "mix"
     ELSE /\ therapy' = None
          /\ pc' = IF LatchDue THEN "latch" ELSE "resume"
          /\ UNCHANGED wifi_audio_queue
  /\ UNCHANGED <<playerVars, wifi_stream_enabled, wifi_accepted, handlerVars,
                 locVars, obsVars, wire>>

\* line 321, the call of save_current_state
TickLatchSave ==
  /\ UNCHANGED <<preemptive, ringVars, captureVars, mixVars, mixed_signal, helperVars,
                 clientVars, sinkVars>>
  /\ pc = "latch"
  /\ loc_state' = SaveCurrentState
  /\ pc' = "latched"
  /\ UNCHANGED <<playerVars, wifiVars, handlerVars, loc_row, loc_t0,
                 loc_next, therapy, raised, obsVars, wire>>

\* lines 321-331: store the snapshot, enter Paused, notify
TickLatchSet ==
  /\ UNCHANGED <<preemptive, ringVars, captureVars, mixVars, mixed_signal, helperVars,
                 clientVars, sinkVars>>
  /\ pc = "latched"
  /\ saved_state' = loc_state
  /\ is_paused' = TRUE
  /\ pause_requested' = FALSE
  /\ message_queue' =
       (IF loc_state # None
        THEN Append(message_queue, <<"treatment-state", Get(loc_state)>>)
        ELSE message_queue) \o << <<"pause:complete">> >>
  /\ saved_blocks' = row_blocks
  \* with a resume pending the row timer still runs on from before the pause
  /\ saved_skewed' = (row_skewed \/ (resume_requested /\ loc_state # None))
  /\ pc' = "resume"
  /\ UNCHANGED <<row, seqVars, last_notified_row, fadeVars, elapsed,
                 resume_requested, phaseVars, wifiVars, highlight_queue,
                 clear_highlight_pending, locVars, therapy, raised, row_blocks,
                 row_resumed, row_skewed, wire>>

\* lines 334-342: a requested resume restores the snapshot
TickResume ==
  /\ UNCHANGED <<preemptive, ringVars, captureVars, mixVars, mixed_signal, helperVars,
                 clientVars, sinkVars>>
  /\ pc = "resume"
  /\ pc' = "gen"
  /\ IF resume_requested
     THEN /\ resume_requested' = FALSE
          /\ IF saved_state # None /\ Restorable(Get(saved_state))
             THEN /\ RestoreState(Get(saved_state))
                  /\ message_queue' = Append(message_queue, <<"resume:complete">>)
                  /\ row_blocks' = saved_blocks
                  /\ row_resumed' = TRUE
                  /\ row_skewed' = saved_skewed
             ELSE IF saved_state # None
             THEN \* restore_state returns False from its except clause
                  /\ RestoreStateFails(Get(saved_state))
                  /\ row_resumed' = TRUE
                  /\ row_skewed' = TRUE
                  /\ UNCHANGED <<message_queue, row_blocks>>
             ELSE UNCHANGED <<row, seqVars, phaseVars, elapsed, is_paused,
                              fadeVars, message_queue, row_blocks, row_resumed,
                              row_skewed>>
     ELSE UNCHANGED <<row, seqVars, phaseVars, elapsed, is_paused,
                      fadeVars, message_queue, resume_requested, row_blocks,
                      row_resumed, row_skewed>>
  /\ UNCHANGED <<last_notified_row, pause_requested, saved_state, wifiVars,
                 highlight_queue, clear_highlight_pending, locVars, therapy,
                 raised, saved_blocks, saved_skewed, wire>>

\* lines 348-377: read the row, the elapsed time, start the automatic fade-out
TickGen ==
  /\ UNCHANGED <<preemptive, ringVars, captureVars, mixVars, mixed_signal, helperVars,
                 clientVars, sinkVars>>
  /\ pc = "gen"
  /\ loc_row' = row
  /\ IF row # None /\ ~is_paused
     THEN LET dur == Get(row).time
              t0 == elapsed
          IN /\ loc_t0' = t0
             /\ IF /\ t0 >= dur - FADE_TIME
                   /\ fade_direction = 0
                   /\ dur > FADE_TIME
                   /\ ~pause_requested
                THEN StartFadeOut
                ELSE UNCHANGED fadeVars
             /\ pc' = "rowend"
     ELSE /\ pc' = "mix"
          /\ UNCHANGED <<loc_t0, fadeVars>>
  /\ UNCHANGED <<row, seqVars, last_notified_row, elapsed, pauseVars,
                 phaseVars, wifiVars, handlerVars, loc_next, loc_state, therapy,
                 raised, obsVars, wire>>

\* a row end that waits for the elapsed time to pass the row's time
RowTimeUpLate(t0, dur) == t0 > dur

\* line 379: the row has played for its time
RowTimeUp(t0, dur) == t0 >= dur

\* lines 379-397: at the end of the row, advance the sequence or go idle
TickRowEnd ==
  /\ UNCHANGED <<preemptive, ringVars, captureVars, mixVars, mixed_signal, helperVars,
                 clientVars, sinkVars>>
  /\ pc = "rowend"
  /\ IF RowTimeUp(loc_t0, Get(loc_row).time)
     THEN IF is_playing_sequence
          THEN IF sequence_rows = None
               THEN \* len(None) raises, caught at line 491
                    /\ pc' = "mix"
                    /\ raised' = TRUE
                    /\ UNCHANGED <<row, seqVars, last_notified_row, fadeVars,
                                   elapsed, phaseVars,
                                   clear_highlight_pending, loc_next>>
               ELSE IF current_row_index + 1 < Len(sequence_rows)
               THEN /\ loc_next' = current_row_index + 1
                    /\ pc' = "startrow"
                    /\ UNCHANGED <<row, seqVars, last_notified_row, fadeVars,
                                   elapsed, phaseVars,
                                   clear_highlight_pending, raised>>
               ELSE /\ clear_highlight_pending' = TRUE
                    /\ row' = None
                    /\ is_playing_sequence' = FALSE
                    /\ sequence_rows' = None
                    /\ ResetState
                    /\ pc' = "synth"
                    /\ UNCHANGED <<current_row_index, loc_next, raised>>
          ELSE /\ row' = None
               /\ ResetState
               /\ pc' = "synth"
               /\ UNCHANGED <<seqVars, clear_highlight_pending, loc_next, raised>>
     ELSE /\ pc' = "synth"
          /\ UNCHANGED <<row, seqVars, last_notified_row, fadeVars,
                         elapsed, phaseVars, clear_highlight_pending,
                         loc_next, raised>>
  /\ UNCHANGED <<pauseVars, wifiVars, highlight_queue, message_queue, loc_row,
                 loc_t0, loc_state, therapy, obsVars, wire>>

\* _start_sequence_row(next_index), lines 890-893
TickStartRow ==
  /\ UNCHANGED <<preemptive, ringVars, captureVars, mixVars, mixed_signal, helperVars,
                 clientVars, sinkVars>>
  /\ pc = "startrow"
  /\ IF StartRowGuard(sequence_rows, loc_next)
     THEN /\ StartRowHead(sequence_rows, loc_next)
          /\ pc' = "startrow2"
          /\ UNCHANGED loc_t0
     ELSE \* returns at once; line 385 recomputes t0
          /\ pc' = "synth"
          /\ loc_t0' = elapsed
          /\ UNCHANGED <<row, current_row_index>>
  /\ UNCHANGED <<sequence_rows, is_playing_sequence, last_notified_row, fadeVars,
                 elapsed, pauseVars, phaseVars, wifiVars, handlerVars,
                 loc_row, loc_next, loc_state, therapy, raised,
                 obsVars, wire>>

\* _start_sequence_row(next_index), lines 894-903, then line 385
TickStartRowTail ==
  /\ UNCHANGED <<preemptive, ringVars, captureVars, mixVars, mixed_signal, helperVars,
                 clientVars, sinkVars>>
  /\ pc = "startrow2"
  /\ IF row = None
     THEN \* self.row.get raises at line 897, caught at line 491
          /\ elapsed' = 0
          /\ phase_accum' = 0
          /\ mod_phase_accum' = 0
          /\ env_cycle' = None
          /\ pc' = "mix"
          /\ raised' = TRUE
          /\ UNCHANGED <<fadeVars, last_notified_row, highlight_queue,
                         row_blocks, row_resumed, row_skewed, loc_t0>>
     ELSE /\ StartRowTail(loc_next, highlight_queue)
          /\ loc_t0' = 0
          /\ pc' = "synth"
          /\ UNCHANGED raised
  /\ UNCHANGED <<row, seqVars, pauseVars, wifiVars, clear_highlight_pending,
                 message_queue, loc_row, loc_next, loc_state, therapy,
                 saved_blocks, saved_skewed, wire>>

\* ---- the strength helpers: apply_dual_strength and scaled_amp ----
\* max(lo, min(hi, x))
Clamp(x, lo, hi) == Max(lo, Min(hi, x))

\* round(num / den) of Python 3: to the nearest integer, a tie to the even one
Round(num, den) ==
  LET q == num \div den
      twice == 2 * (num % den)
  IN IF twice < den THEN q
     ELSE IF twice > den THEN q + 1
     ELSE IF q % 2 = 0 THEN q ELSE q + 1

\* int(row.get("mode", 0))
RowMode(r) == IF "mode" \in DOMAIN r THEN r.mode ELSE 0

\* the period of the drum envelope, 1 / mod_freq, and the cycle of the
\* heartbeat envelope, 60 / int(mod_freq * 60), in samples
ModPeriod(r) == MOD_PERIOD_BASE \div r.modSpeed

\* float(row.get("phase", 90))
RowPhase(r) == IF "phase" \in DOMAIN r THEN r.phase ELSE PHASE_DEFAULT

\* lines 364-366: burst_len = max(1, int(round(phase / 22.5)))
BurstLen(r) == Max(1, Round(RowPhase(r), 2))

\* _generate_drum_env, lines 259 and 263-269, for sample k (from 0) of a block
\* that starts at phi0: beat_index = floor((phi0 + t) / period), and the
\* sample stays 0 unless beat_index % (burst_len + burst_gap) < burst_len
DrumSilent(r, phi0, k) ==
  LET beat_index == (phi0 + k) \div ModPeriod(r)
  IN ~((beat_index % (BurstLen(r) + 1)) < BurstLen(r))

\* the samples of the block the drum envelope leaves at 0 for its burst gap
EnvSilent(r) ==
  IF RowMode(r) \in {8, 9}
  THEN [k \in 1..BLOCK |-> DrumSilent(r, mod_phase_accum, k - 1)]
  ELSE <<>>

\* the position in the modulation cycle of the first sample of the block:
\* phi0 = mod_phase_accum for the sine (line 434) and the drum (line 255);
\* _generate_heartbeat_env counts t from 0 in every block (lines 211, 215)
EnvFirst(r) == IF RowMode(r) = 10 THEN 0 ELSE mod_phase_accum

\* the position reached after the last sample of the block: sine, line 446;
\* drum, line 257; heartbeat, frames * dt into the cycle
EnvEnd(r) ==
  IF RowMode(r) \in {8, 9} THEN (mod_phase_accum + BLOCK) % ModPeriod(r)
  ELSE IF RowMode(r) = 10 THEN BLOCK % ModPeriod(r)
  ELSE (mod_phase_accum + BLOCK * r.modSpeed) % TWO_PI

\* lines 400-473: synthesize the block from the parameters read at line 352,
\* advance the phase accumulators, apply the fade
TickSynth ==
  /\ UNCHANGED <<preemptive, ringVars, captureVars, mixVars, mixed_signal, helperVars,
                 clientVars, sinkVars>>
  /\ pc = "synth"
  /\ pc' = "mix"
  /\ IF row # None
     THEN /\ phase_accum' = (phase_accum + BLOCK * Get(loc_row).frequency) % TWO_PI
          /\ mod_phase_accum' =
               IF RowMode(Get(loc_row)) = 10 THEN mod_phase_accum
               ELSE EnvEnd(Get(loc_row))
          /\ env_cycle' = Some([first |-> EnvFirst(Get(loc_row)),
                                end |-> EnvEnd(Get(loc_row)),
                                silent |-> EnvSilent(Get(loc_row))])
          /\ ApplyFade
          /\ therapy' = <<"row", Get(row), Get(loc_row), current_row_index,
                          is_playing_sequence>>
          /\ row_blocks' = row_blocks + 1
     ELSE UNCHANGED <<phaseVars, fadeVars, therapy, row_blocks, fade_envelope>>
  /\ UNCHANGED <<row, seqVars, last_notified_row, elapsed, pauseVars,
                 wifiVars, handlerVars, locVars, raised, row_resumed,
                 row_skewed, saved_blocks, saved_skewed, wire>>

\* lines 475-493: the gains the tick's block is mixed with: the therapy block
\* times therapy_gain plus, when bt_gain > 0, the 8-channel aux block times
\* bt_gain; the block of the except clause is all zeros
MixedSignal ==
  IF raised
  THEN [therapy_mix_gain |-> 0, music_gain |-> 0]
  ELSE [therapy_mix_gain |-> therapy_gain,
        music_gain |-> IF bt_gain > 0 THEN bt_gain ELSE 0]

\* lines 475-489 and 1060-1077: mix, write the block (the buffer of the tick is
\* dead from here on), sleep one period
TickMix ==
  /\ UNCHANGED <<preemptive, ringVars, captureVars, mixVars, helperVars, clientVars>>
  /\ pc = "mix"
  /\ pc' = "idle"
  /\ LoopWrite
  /\ mixed_signal' = Some(MixedSignal)
  /\ elapsed' = Min(elapsed + BLOCK, MaxElapsed)
  /\ loc_row' = None
  /\ loc_t0' = 0
  /\ loc_next' = 0
  /\ loc_state' = None
  /\ therapy' = None
  /\ raised' = FALSE
  /\ UNCHANGED <<row, seqVars, last_notified_row, fadeVars, pauseVars, phaseVars,
                 wifiVars, handlerVars, obsVars, wire>>

\* ---- control plane: WebSocketHandler.handle_client, one action per message ----
\* frames send_pending_highlights sends: the clear (if pending) first, then the
\* queued highlights
SentFrames ==
  (IF clear_highlight_pending THEN <<CLEAR>> ELSE <<>>) \o highlight_queue

\* the asyncio thread handles a message while the engine thread sleeps between
\* two ticks
ControlRuns ==
  /\ UNCHANGED <<preemptive, ringVars, captureVars, mixVars, mixed_signal,
                 helperVars, sinkVars>>
  /\ pc = "idle"
  /\ messages_to_send = None

\* play_row and play_sequence call ensure_stream first (self.stream is never
\* set, so the test of lines 864 and 877 always succeeds); no capture is
\* waiting for its read thread
PlayRuns ==
  /\ UNCHANGED <<preemptive, ringVars, captureVars, mixVars, mixed_signal,
                 helperVars>>
  /\ pc = "idle"
  /\ messages_to_send = None
  /\ ~BtRestartDue
  /\ \E popen_ok \in BOOLEAN : EnsureStream(popen_ok)

\* the asyncio thread handles a message while the engine thread is anywhere
\* in its tick
ControlPreempts ==
  /\ UNCHANGED <<preemptive, ringVars, captureVars, mixVars, mixed_signal,
                 helperVars, sinkVars>>
  /\ (preemptive \/ pc = "idle")
  /\ messages_to_send = None

SendPendingHighlights ==
  /\ wire' = wire \o SentFrames
  /\ highlight_queue' = <<>>
  /\ clear_highlight_pending' = FALSE

ProcessQueuedMessages == message_queue' = <<>>

\* await ws.send(frame), the handler's answer to the message it handled
WsSend(frame) ==
  /\ ws_open
  /\ ws_sent' = IF ws_traced THEN frame ELSE ws_sent
  /\ UNCHANGED <<ws_open, ws_traced, messages_to_send>>

\* play-selected: play_row(row)
PlayRow(r) ==
  /\ PlayRuns
  /\ SendPendingHighlights
  /\ ProcessQueuedMessages
  /\ WsSend("ack:play-selected")
  /\ is_playing_sequence' = FALSE
  /\ sequence_rows' = None
  /\ row' = Some(r)
  /\ elapsed' = 0
  /\ phase_accum' = 0
  /\ mod_phase_accum' = 0
  /\ env_cycle' = None
  /\ StartFadeIn
  /\ row_blocks' = 0
  /\ row_resumed' = FALSE
  /\ row_skewed' = FALSE
  /\ UNCHANGED <<current_row_index, last_notified_row, pauseVars, wifiVars,
                 engineVars, saved_blocks, saved_skewed>>

\* play-all: play_sequence(rows)
PlaySequence(rows) ==
  LET valid_rows == ValidRows(rows)
  IN /\ PlayRuns
     /\ ProcessQueuedMessages
     /\ WsSend("ack:play-all")
     /\ clear_highlight_pending' = FALSE
     /\ IF valid_rows = <<>>
        THEN /\ wire' = wire \o SentFrames
             /\ highlight_queue' = <<>>
             /\ UNCHANGED <<row, seqVars, last_notified_row, fadeVars,
                            elapsed, phaseVars, row_blocks, row_resumed,
                            row_skewed>>
        ELSE /\ wire' = <<>>
             /\ sequence_rows' = valid_rows
             /\ is_playing_sequence' = TRUE
             /\ StartRowHead(valid_rows, 0)
             /\ StartRowTail(0, <<>>)
     /\ UNCHANGED <<pauseVars, wifiVars, engineVars, saved_blocks, saved_skewed>>

\* request_pause that only looks for a row
RequestPauseAnyTime ==
  /\ ControlRuns
  /\ SendPendingHighlights
  /\ ProcessQueuedMessages
  /\ WsSend("ack:pause")
  /\ IF row # None
     THEN /\ pause_requested' = TRUE
          /\ StartFadeOut
     ELSE UNCHANGED <<pause_requested, fadeVars>>
  /\ UNCHANGED <<row, seqVars, last_notified_row, elapsed, is_paused,
                 resume_requested, saved_state, phaseVars, wifiVars, engineVars,
                 obsVars>>

\* pause: request_pause()
RequestPause ==
  /\ ControlRuns
  /\ SendPendingHighlights
  /\ ProcessQueuedMessages
  /\ WsSend("ack:pause")
  /\ IF row # None /\ ~is_paused /\ ~pause_requested
     THEN /\ pause_requested' = TRUE
          /\ StartFadeOut
     ELSE UNCHANGED <<pause_requested, fadeVars>>
  /\ UNCHANGED <<row, seqVars, last_notified_row, elapsed, is_paused,
                 resume_requested, saved_state, phaseVars, wifiVars, engineVars,
                 obsVars>>

\* request_resume that does not look at the player
RequestResumeUnguarded ==
  /\ ControlRuns
  /\ SendPendingHighlights
  /\ ProcessQueuedMessages
  /\ WsSend("ack:resume")
  /\ resume_requested' = TRUE
  /\ is_paused' = FALSE
  /\ UNCHANGED <<row, seqVars, last_notified_row, fadeVars, elapsed,
                 pause_requested, saved_state, phaseVars, wifiVars, engineVars,
                 obsVars>>

\* resume without resumeState: request_resume()
RequestResume ==
  /\ ControlRuns
  /\ SendPendingHighlights
  /\ ProcessQueuedMessages
  /\ WsSend("ack:resume")
  /\ IF is_paused /\ saved_state # None
     THEN /\ resume_requested' = TRUE
          /\ is_paused' = FALSE
     ELSE UNCHANGED <<resume_requested, is_paused>>
  /\ UNCHANGED <<row, seqVars, last_notified_row, fadeVars, elapsed,
                 pause_requested, saved_state, phaseVars, wifiVars, engineVars,
                 obsVars>>

\* the resumeState objects a client sends that hold row_data and lack the
\* other keys of a snapshot
ResumeStates == {[row_data |-> RowA], [row_data |-> RowB]}

\* resume with resumeState, lines 1182-1188: a dict with row_data replaces
\* saved_state, then request_resume()
RequestResumeState(st) ==
  /\ ControlRuns
  /\ SendPendingHighlights
  /\ ProcessQueuedMessages
  /\ WsSend("ack:resume")
  /\ saved_state' = Some(st)
  /\ IF is_paused
     THEN /\ resume_requested' = TRUE
          /\ is_paused' = FALSE
     ELSE UNCHANGED <<resume_requested, is_paused>>
  /\ UNCHANGED <<row, seqVars, last_notified_row, fadeVars, elapsed,
                 pause_requested, phaseVars, wifiVars, engineVars, obsVars>>

\* stop: stop()
Stop ==
  /\ ControlPreempts
  /\ SendPendingHighlights
  /\ ProcessQueuedMessages
  /\ WsSend("ack:stop")
  /\ is_paused' = FALSE
  /\ pause_requested' = FALSE
  /\ resume_requested' = FALSE
  /\ saved_state' = None
  /\ row' = None
  /\ is_playing_sequence' = FALSE
  /\ sequence_rows' = None
  /\ ResetState
  /\ saved_blocks' = 0
  /\ saved_skewed' = FALSE
  /\ UNCHANGED <<current_row_index, wifiVars, engineVars, row_blocks,
                 row_resumed, row_skewed>>

\* wifi-stream-start
WifiStreamStart ==
  /\ ControlRuns
  /\ SendPendingHighlights
  /\ ProcessQueuedMessages
  /\ WsSend("ack:wifi-stream-start")
  /\ wifi_stream_enabled' = TRUE
  /\ row' = None
  /\ is_playing_sequence' = FALSE
  /\ wifi_audio_queue' = <<>>
  /\ UNCHANGED wifi_accepted
  /\ UNCHANGED <<sequence_rows, current_row_index, last_notified_row, fadeVars,
                 elapsed, pauseVars, phaseVars, engineVars, obsVars>>

\* wifi-stream-stop
WifiStreamStop ==
  /\ ControlPreempts
  /\ wifi_stream_enabled
  /\ SendPendingHighlights
  /\ ProcessQueuedMessages
  /\ WsSend("ack:wifi-stream-stop")
  /\ wifi_stream_enabled' = FALSE
  /\ wifi_audio_queue' = <<>>
  /\ UNCHANGED wifi_accepted
  /\ UNCHANGED <<playerVars, engineVars, obsVars>>

\* highlight_sender: the periodic send_pending_highlights
HighlightSender ==
  /\ ControlRuns
  /\ SentFrames # <<>>
  /\ SendPendingHighlights
  /\ UNCHANGED <<playerVars, wifiVars, message_queue, engineVars, obsVars,
                 clientVars>>

Next ==
  \/ TickBegin
  \/ TickLatchSave
  \/ TickLatchSet
  \/ TickResume
  \/ TickGen
  \/ TickRowEnd
  \/ TickStartRow
  \/ TickStartRowTail
  \/ TickSynth
  \/ TickMix
  \/ \E r \in RowPool : PlayRow(r)
  \/ \E rows \in SequenceInputs : PlaySequence(rows)
  \/ RequestPause
  \/ RequestResume
  \/ Stop
  \/ HighlightSender

\* the sequencer with its commands
Spec == Init /\ [][Next]_vars
SpecRace == InitRace /\ [][Next]_vars

\* the sequencer with the resume command that carries a resumeState
NextResume == Next \/ \E st \in ResumeStates : RequestResumeState(st)
SpecResume == Init /\ [][NextResume]_vars

\* ---- _process_queued_messages next to the running engine thread ----
\* line 1130: messages_to_send = self._message_queue.copy(), with the engine
\* thread anywhere in its tick
ProcessQueuedCopy ==
  /\ messages_to_send = None
  /\ message_queue # <<>>
  /\ messages_to_send' = Some(message_queue)
  /\ UNCHANGED <<ws_open, ws_sent, ws_traced, playerVars, wifiVars, handlerVars,
                 engineVars, obsVars, wire, mixVars, mixed_signal, helperVars,
                 sinkVars, preemptive, ringVars, captureVars>>

\* lines 1131-1133: self._message_queue.clear(), then the copied messages
\* are sent
ProcessQueuedClear ==
  /\ messages_to_send # None
  /\ message_queue' = <<>>
  /\ messages_to_send' = None
  /\ UNCHANGED <<ws_open, ws_sent, ws_traced, playerVars, wifiVars,
                 highlight_queue, clear_highlight_pending, engineVars, obsVars,
                 wire, mixVars, mixed_signal, helperVars, sinkVars, preemptive,
                 ringVars, captureVars>>

\* the engine thread, pause and resume, and the drain of the message queue
NextDispatch ==
  \/ TickBegin
  \/ TickLatchSave
  \/ TickLatchSet
  \/ TickResume
  \/ TickGen
  \/ TickRowEnd
  \/ TickStartRow
  \/ TickStartRowTail
  \/ TickSynth
  \/ TickMix
  \/ \E rows \in SequenceInputs : PlaySequence(rows)
  \/ RequestPause
  \/ RequestResume
  \/ ProcessQueuedCopy
  \/ ProcessQueuedClear

SpecDispatch == Init /\ [][NextDispatch]_vars

\* the sequencer and the external WiFi-stream mode
NextWifi == Next \/ WifiStreamStart \/ WifiStreamStop
SpecWifi == Init /\ [][NextWifi]_vars

\* ---- the messages handle_client does not dispatch to the player ----
\* text that json.loads rejects; JSON that is no object (an array, a number);
\* objects whose action none of the branches names, or that have none
OtherMessages ==
  {[kind |-> "text", action |-> "none"],
   [kind |-> "array", action |-> "none"],
   [kind |-> "number", action |-> "none"],
   [kind |-> "object", action |-> "frobnicate"],
   [kind |-> "object", action |-> "none"]}

\* lines 1153-1162 and 1391-1399: the queues are flushed, then json.loads
\* raises JSONDecodeError (error:badjson, continue); or data.get raises
\* AttributeError on a value that is no dict, which leaves the receive loop
\* through except Exception and discards the client; or no branch matches
\* (error:unknown)
HandleOther(msg) ==
  /\ ControlRuns
  /\ SendPendingHighlights
  /\ ProcessQueuedMessages
  /\ IF msg.kind = "text" THEN WsSend("error:badjson")
     ELSE IF msg.kind # "object"
     THEN /\ ws_open
          /\ ws_open' = FALSE
          /\ ws_sent' = IF ws_traced THEN "none" ELSE ws_sent
          /\ UNCHANGED <<ws_traced, messages_to_send>>
     ELSE WsSend("error:unknown")
  /\ UNCHANGED <<playerVars, wifiVars, engineVars, obsVars>>

\* one client connected; the model keeps the handler's answers
InitClient ==
  /\ InitPlayer /\ InitGain /\ InitRoute /\ preemptive = FALSE
  /\ ws_open = TRUE
  /\ ws_sent = "none"
  /\ ws_traced = TRUE
  /\ messages_to_send = None

\* the sequencer, its commands and the messages that are no command
NextClient ==
  \/ TickBegin
  \/ TickLatchSave
  \/ TickLatchSet
  \/ TickResume
  \/ TickGen
  \/ TickRowEnd
  \/ TickStartRow
  \/ TickStartRowTail
  \/ TickSynth
  \/ TickMix
  \/ PlayRow(RowA)
  \/ \E rows \in SequenceInputs : PlaySequence(rows)
  \/ RequestPause
  \/ RequestResume
  \/ Stop
  \/ HighlightSender
  \/ \E msg \in OtherMessages : HandleOther(msg)

SpecClient == InitClient /\ [][NextClient]_vars

\* ---- the envelope families: sine, drum, heartbeat ----
NextEnvelope ==
  \/ TickBegin
  \/ TickResume
  \/ TickGen
  \/ TickRowEnd
  \/ TickSynth
  \/ TickMix
  \/ \E r \in EnvelopeRows : PlayRow(r)

SpecEnvelope == Init /\ [][NextEnvelope]_vars

\* ---- the notifications on their way to the client ----
\* one step of the engine thread
EngineTick ==
  \/ TickBegin
  \/ TickLatchSave
  \/ TickLatchSet
  \/ TickResume
  \/ TickGen
  \/ TickRowEnd
  \/ TickStartRow
  \/ TickStartRowTail
  \/ TickSynth
  \/ TickMix

NextNotify ==
  \/ EngineTick
  \/ PlayRow(RowA)
  \/ PlaySequence(<<RowA, RowB>>)
  \/ RequestPause
  \/ RequestResume
  \/ HighlightSender

\* the engine loop never stops ticking (its thread sleeps one period and
\* goes on, lines 1056-1077) and highlight_sender runs every 0.1 s for ever
\* (lines 1834-1837); client messages come when the client sends them
SpecNotify ==
  /\ Init
  /\ [][NextNotify]_vars
  /\ WF_vars(EngineTick)
  /\ SF_vars(HighlightSender)

\* ---- WiFi-stream mode: the block queue and its producer ----
\* the payloads of wifi-stream-data: a block of BLOCK * CHANNELS samples, an
\* array of another length, data that cannot be made an array
StreamData == {"block", "short", "garbage"}

\* wifi-stream-data that never finds the queue full
WifiStreamDataUnbounded(data) ==
  /\ ControlRuns
  /\ SendPendingHighlights
  /\ ProcessQueuedMessages
  /\ IF data = "garbage"
     THEN WsSend("error:wifi-stream-data") /\ UNCHANGED wifiVars
     ELSE IF data = "short"
     THEN WsSend("error:wifi-stream-data:size-mismatch") /\ UNCHANGED wifiVars
     ELSE /\ wifi_accepted < MaxPushed
          /\ wifi_audio_queue' = Append(wifi_audio_queue, wifi_accepted + 1)
          /\ wifi_accepted' = wifi_accepted + 1
          /\ WsSend("ack:wifi-stream-data")
          /\ UNCHANGED wifi_stream_enabled
  /\ UNCHANGED <<playerVars, engineVars, obsVars>>

\* wifi-stream-data, lines 1366-1389: the size is tested first, then
\* put_nowait, which raises queue.Full on a queue of maxsize blocks
WifiStreamData(data) ==
  /\ ControlRuns
  /\ SendPendingHighlights
  /\ ProcessQueuedMessages
  /\ IF data = "garbage"
     THEN WsSend("error:wifi-stream-data") /\ UNCHANGED wifiVars
     ELSE IF data = "short"
     THEN WsSend("error:wifi-stream-data:size-mismatch") /\ UNCHANGED wifiVars
     ELSE IF Len(wifi_audio_queue) >= WIFI_QUEUE_MAX
     THEN WsSend("error:wifi-stream-data:queue-full") /\ UNCHANGED wifiVars
     ELSE /\ wifi_accepted < MaxPushed
          /\ wifi_audio_queue' = Append(wifi_audio_queue, wifi_accepted + 1)
          /\ wifi_accepted' = wifi_accepted + 1
          /\ WsSend("ack:wifi-stream-data")
          /\ UNCHANGED wifi_stream_enabled
  /\ UNCHANGED <<playerVars, engineVars, obsVars>>

\* the engine with no row, the WiFi-stream commands and the block producer
NextStream ==
  \/ TickBegin
  \/ TickResume
  \/ TickGen
  \/ TickMix
  \/ WifiStreamStart
  \/ WifiStreamStop
  \/ \E data \in StreamData : WifiStreamData(data)

SpecStream == InitClient /\ [][NextStream]_vars

\* ---- the output sink's life ----
\* monitor_device, lines 1814-1832: ensure_stream called from the asyncio
\* thread while the engine thread is anywhere
MonitorDevice(popen_ok) ==
  /\ EnsureStream(popen_ok)
  /\ IF BtRestartDue
     THEN /\ bt_ring_write_pos' = 0
          /\ bt_ring_read_pos' = 0
          /\ bt_ring_fill' = 0
          /\ bt_read_running' = TRUE
          /\ bt_threads' = Append(bt_threads, "loop")
     ELSE UNCHANGED <<bt_ring_write_pos, bt_ring_read_pos, bt_ring_fill,
                      bt_read_running, bt_threads>>
  /\ UNCHANGED <<bt_ring_buffer, bt_stereo, captured, delivered, resets,
                 underrun_count, underrun_log, bt_input, bt_enabled,
                 consecutive_errors, device, last_read, failed_reads, joining,
                 playerVars, wifiVars, handlerVars, engineVars, obsVars, wire,
                 mixVars, mixed_signal, helperVars, clientVars, preemptive>>

\* the aplay process ends (the device vanished, the pipe broke)
AlsaProcessEnds ==
  /\ alsa_process = "alive"
  /\ alsa_process' = "dead"
  /\ UNCHANGED <<alsa_spawned, audio_running, audio_loops, audio_exiting,
                 threads_started, playerVars, wifiVars, handlerVars, engineVars,
                 obsVars, wire, mixVars, mixed_signal, helperVars, clientVars,
                 preemptive, ringVars, captureVars>>

\* a thread that broke out of the loop runs line 1087 and ends
LoopExit ==
  /\ LoopEnds
  /\ UNCHANGED <<playerVars, wifiVars, handlerVars, engineVars, obsVars, wire,
                 mixVars, mixed_signal, helperVars, clientVars, preemptive,
                 ringVars, captureVars>>

\* with no loop running time.perf_counter() goes on and no block is made
HaltedClock ==
  /\ audio_loops = 0
  /\ pc = "idle"
  /\ elapsed < MaxElapsed
  /\ elapsed' = Min(elapsed + BLOCK, MaxElapsed)
  /\ UNCHANGED <<row, seqVars, last_notified_row, fadeVars, pauseVars,
                 phaseVars, wifiVars, handlerVars, engineVars, obsVars, wire,
                 mixVars, mixed_signal, helperVars, clientVars, sinkVars,
                 preemptive, ringVars, captureVars>>

\* the engine playing single rows while the sink process may end and the
\* device monitor and the play commands open the output again
NextSink ==
  \/ TickBegin
  \/ TickResume
  \/ TickGen
  \/ TickRowEnd
  \/ TickSynth
  \/ TickMix
  \/ PlayRow(RowB)
  \/ \E popen_ok \in BOOLEAN : MonitorDevice(popen_ok)
  \/ AlsaProcessEnds
  \/ LoopExit
  \/ HaltedClock

SpecSink == Init /\ [][NextSink]_vars

\* the fade controller: single rows of every length played to their end,
\* the engine ticking, no pause
NextFade ==
  \/ TickBegin
  \/ TickResume
  \/ TickGen
  \/ TickRowEnd
  \/ TickSynth
  \/ TickMix
  \/ \E r \in FadeRows : PlayRow(r)

SpecFade == Init /\ [][NextFade]_vars

\* ---- the aux ring: capture thread, engine read, reset (all under
\* bt_ring_lock, so each is one step) ----
Ring == [buffer |-> bt_ring_buffer, write_pos |-> bt_ring_write_pos,
         read_pos |-> bt_ring_read_pos, fill |-> bt_ring_fill]

\* a write that overwrites the oldest frame and leaves the read position
RingWriteNoSkip(r, frame) ==
  IF r.fill < RING_CAP
  THEN [r EXCEPT !.buffer[r.write_pos] = frame,
                 !.write_pos = (r.write_pos + 1) % RING_CAP,
                 !.fill = r.fill + 1]
  ELSE [r EXCEPT !.buffer[r.write_pos] = frame,
                 !.write_pos = (r.write_pos + 1) % RING_CAP]

\* a write that drops the new frame when the ring is full
RingWriteDropsNewest(r, frame) ==
  IF r.fill < RING_CAP
  THEN [r EXCEPT !.buffer[r.write_pos] = frame,
                 !.write_pos = (r.write_pos + 1) % RING_CAP,
                 !.fill = r.fill + 1]
  ELSE r

\* lines 560-568: one frame of the chunk
RingWrite(r, frame) ==
  IF r.fill < RING_CAP
  THEN [r EXCEPT !.buffer[r.write_pos] = frame,
                 !.write_pos = (r.write_pos + 1) % RING_CAP,
                 !.fill = r.fill + 1]
  ELSE [r EXCEPT !.read_pos = (r.read_pos + 1) % RING_CAP,
                 !.buffer[r.write_pos] = frame,
                 !.write_pos = (r.write_pos + 1) % RING_CAP]

\* line 559: for frame in stereo
RECURSIVE RingWriteAll(_, _)
RingWriteAll(r, stereo) ==
  IF stereo = <<>> THEN r
  ELSE RingWriteAll(RingWrite(r, Head(stereo)), Tail(stereo))

\* _bt_read_loop, lines 543-568: a period of m frames comes from the device
BtReadLoopWrite(m) ==
  /\ captured + m <= MaxFrames
  /\ LET stereo == [i \in 1..m |-> captured + i]
         r == RingWriteAll(Ring, stereo)
     IN /\ bt_ring_buffer' = r.buffer
        /\ bt_ring_write_pos' = r.write_pos
        /\ bt_ring_read_pos' = r.read_pos
        /\ bt_ring_fill' = r.fill
  /\ captured' = captured + m
  /\ UNCHANGED <<bt_stereo, delivered, resets, underrun_count, underrun_log,
                 sequencerVars, preemptive, captureVars>>

\* a copy that stops at the end of the buffer: the frames past it stay zero
RingCopyNoWrap(n) ==
  [i \in 1..n |->
     IF bt_ring_read_pos + i - 1 < RING_CAP
     THEN bt_ring_buffer[bt_ring_read_pos + i - 1]
     ELSE 0]

\* lines 631-642: the frames copied out, with or without wrap-around
RingCopy(n) ==
  LET space_until_wrap == RING_CAP - bt_ring_read_pos
  IN IF n <= space_until_wrap
     THEN [i \in 1..n |-> bt_ring_buffer[bt_ring_read_pos + i - 1]]
     ELSE [i \in 1..n |->
             IF i <= space_until_wrap
             THEN bt_ring_buffer[bt_ring_read_pos + i - 1]
             ELSE bt_ring_buffer[i - space_until_wrap - 1]]

\* lines 631-642: the read position after n frames
RingReadPos(n) ==
  LET space_until_wrap == RING_CAP - bt_ring_read_pos
  IN IF n <= space_until_wrap
     THEN (bt_ring_read_pos + n) % RING_CAP
     ELSE n - space_until_wrap

\* line 614: the frames a read takes
ToRead(frames, available) == Min(frames, available)

\* lines 619-622: _underrun_count after the increment
UnderrunCounted == IF underrun_count = None THEN 1 ELSE Get(underrun_count) + 1

\* lines 617-627: count the underrun; log and restart the count when the
\* last log (or the creation of the counter, in this very call) is a second
\* or more ago
LogUnderrun(to_read, frames, due) ==
  IF to_read < frames
  THEN IF due /\ underrun_count # None
       THEN /\ underrun_log' = UnderrunCounted
            /\ underrun_count' = Some(0)
       ELSE /\ underrun_count' = Some(UnderrunCounted)
            /\ UNCHANGED underrun_log
  ELSE UNCHANGED <<underrun_count, underrun_log>>

\* _read_bt_from_ring(frames): the block is zeros past the frames read; due:
\* the clock is a second or more past _last_underrun_log
ReadBtFromRing(frames, due) ==
  LET n == ToRead(frames, bt_ring_fill)
  IN /\ n < frames => UnderrunCounted <= MaxUnderruns
     /\ LogUnderrun(n, frames, due)
     /\ IF n > 0
        THEN /\ bt_stereo' = RingCopy(n) \o [i \in 1..(frames - n) |-> 0]
             /\ bt_ring_read_pos' = RingReadPos(n)
             /\ bt_ring_fill' = bt_ring_fill - n
             /\ delivered' = RingCopy(n)[n]
        ELSE /\ bt_stereo' = [i \in 1..frames |-> 0]
             /\ UNCHANGED <<bt_ring_read_pos, bt_ring_fill, delivered>>
     /\ UNCHANGED <<bt_ring_buffer, bt_ring_write_pos, captured, resets,
                    sequencerVars, preemptive, captureVars>>

\* _setup_bluetooth_input, lines 744-765: the capture is opened, the ring
\* cleared, the capture thread started
SetupBluetoothInput ==
  /\ resets < MaxResets
  /\ device = "present"
  /\ resets' = resets + 1
  /\ bt_input' = Some("cap")
  /\ bt_enabled' = TRUE
  /\ bt_ring_write_pos' = 0
  /\ bt_ring_read_pos' = 0
  /\ bt_ring_fill' = 0
  /\ bt_read_running' = TRUE
  /\ bt_threads' = <<"loop">>
  /\ consecutive_errors' = 0
  /\ last_read' = "unread"
  /\ failed_reads' = 0
  /\ UNCHANGED <<bt_ring_buffer, bt_stereo, captured, delivered,
                 underrun_count, underrun_log, device, joining, sequencerVars,
                 preemptive>>

NextRing ==
  \/ \E m \in 1..BLOCK : BtReadLoopWrite(m)
  \/ \E frames \in 1..MaxRead, due \in BOOLEAN : ReadBtFromRing(frames, due)
  \/ SetupBluetoothInput

\* the aux ring with its three users
SpecRing == Init /\ [][NextRing]_vars

\* ---- the capture thread, _bt_read_loop ----
\* what bt_input.read() can give: a period of frames, nothing, an error code
\* or exception of a device that is there; (None, None) or an exception
\* naming the loss of a device that is gone
ReadOutcomes ==
  IF device = "present" THEN {"data", "empty", "error"} ELSE {"none", "lost"}

\* lines 589-604: the handler of an exception that leaves the outer try
ReadLoopExcept(errors) ==
  IF errors + 1 >= MAX_CONSECUTIVE_ERRORS
  THEN /\ bt_input' = None
       /\ bt_enabled' = FALSE
       /\ consecutive_errors' = 0
  ELSE /\ consecutive_errors' = errors + 1
       /\ UNCHANGED <<bt_input, bt_enabled>>

\* lines 531-604: one turn of the loop with one read.  A read that gives
\* (None, None) raises inside the inner try (line 545) and, like every
\* exception of the read, is caught at line 569, which leaves the for loop;
\* raises: the statistics print or the sleep after the inner try raises
BtReadLoopTurn(outcome, m, raises) ==
  /\ bt_read_running
  /\ IF bt_input = None \/ ~bt_enabled
     THEN /\ consecutive_errors' = 0
          /\ UNCHANGED <<bt_input, bt_enabled, last_read, failed_reads,
                         bt_ring_buffer, bt_ring_write_pos, bt_ring_read_pos,
                         bt_ring_fill, captured>>
     ELSE /\ last_read' = outcome
          /\ IF outcome = "data"
             THEN /\ captured + m <= MaxFrames
                  /\ LET stereo == [i \in 1..m |-> captured + i]
                         r == RingWriteAll(Ring, stereo)
                     IN /\ bt_ring_buffer' = r.buffer
                        /\ bt_ring_write_pos' = r.write_pos
                        /\ bt_ring_read_pos' = r.read_pos
                        /\ bt_ring_fill' = r.fill
                  /\ captured' = captured + m
                  /\ failed_reads' = 0
             ELSE /\ failed_reads' =
                       IF outcome = "empty" THEN failed_reads
                       ELSE Min(failed_reads + 1, MAX_CONSECUTIVE_ERRORS)
                  /\ UNCHANGED <<bt_ring_buffer, bt_ring_write_pos,
                                 bt_ring_read_pos, bt_ring_fill, captured>>
          /\ IF raises
             THEN ReadLoopExcept(IF outcome = "data" THEN 0 ELSE consecutive_errors)
             ELSE /\ consecutive_errors' =
                       IF outcome = "data" THEN 0 ELSE consecutive_errors
                  /\ UNCHANGED <<bt_input, bt_enabled>>
  /\ UNCHANGED <<bt_read_running, device, bt_stereo, delivered, resets,
                 underrun_count, underrun_log, sequencerVars, preemptive>>

\* the turn of the one capture thread
BtReadLoop(outcome, m, raises) ==
  /\ BtReadLoopTurn(outcome, m, raises)
  /\ UNCHANGED threadVars

\* the capture device goes away (the source disconnects)
DeviceLost ==
  /\ device = "present"
  /\ device' = "gone"
  /\ UNCHANGED <<bt_input, bt_enabled, bt_read_running, consecutive_errors,
                 last_read, failed_reads, threadVars, ringVars, sequencerVars,
                 preemptive>>

NextCapture ==
  \/ SetupBluetoothInput
  \/ \E outcome \in ReadOutcomes, m \in 1..BLOCK, raises \in BOOLEAN :
       BtReadLoop(outcome, m, raises)
  \/ DeviceLost

\* the capture thread, the device and the collaborator that opens the capture
SpecCapture == Init /\ [][NextCapture]_vars

\* ---- the capture threads and the functions that stop and start them ----
\* one turn of capture thread t: the test of the while (line 531), then the
\* body; a turn that recycles the connection goes on into the sleeps of
\* lines 600 and 604 (2 s and 10 ms); consecutive_errors is the count of the
\* thread that runs
BtThreadLoop(t, outcome, m, raises) ==
  /\ bt_threads[t] = "loop"
  /\ IF bt_read_running
     THEN /\ BtReadLoopTurn(outcome, m, raises)
          /\ bt_threads' =
               IF bt_input # None /\ bt_input' = None
               THEN [bt_threads EXCEPT ![t] = "recycling"]
               ELSE bt_threads
          /\ UNCHANGED joining
     ELSE /\ bt_threads' = [bt_threads EXCEPT ![t] = "done"]
          /\ UNCHANGED <<joining, bt_input, bt_enabled, bt_read_running,
                         consecutive_errors, device, last_read, failed_reads,
                         ringVars, sequencerVars, preemptive>>

\* the sleeps of lines 600 and 604 are over
BtThreadWakes(t) ==
  /\ bt_threads[t] = "recycling"
  /\ bt_threads' = [bt_threads EXCEPT ![t] = "loop"]
  /\ UNCHANGED <<joining, bt_input, bt_enabled, bt_read_running,
                 consecutive_errors, device, last_read, failed_reads,
                 ringVars, sequencerVars, preemptive>>

\* bt_read_thread.join(timeout=2) returns: the thread has returned, or the
\* 2 s have passed with the thread in the sleeps of lines 600 and 604,
\* which take 2.01 s
JoinReturns ==
  \/ bt_threads = <<>>
  \/ bt_threads[Len(bt_threads)] \in {"done", "recycling"}

\* _setup_bluetooth_input, lines 719-723: the flag is cleared and the thread
\* joined
SetupBluetoothStop ==
  /\ joining = "none"
  /\ bt_read_running
  /\ bt_read_running' = FALSE
  /\ joining' = "setup"
  /\ UNCHANGED <<bt_threads, bt_input, bt_enabled, consecutive_errors, device,
                 last_read, failed_reads, ringVars, sequencerVars, preemptive>>

\* _setup_bluetooth_input, lines 725-824: the old handle is closed; the
\* capture is opened, the ring cleared and a capture thread started, or (ok
\* false) neither the direct nor the loopback capture opens
SetupBluetoothOpen(ok) ==
  /\ \/ joining = "setup" /\ JoinReturns
     \/ joining = "none" /\ ~bt_read_running
  /\ joining' = "none"
  /\ IF ok
     THEN /\ Len(bt_threads) < MaxThreads
          /\ device = "present"
          /\ bt_input' = Some("cap")
          /\ bt_enabled' = TRUE
          /\ bt_ring_write_pos' = 0
          /\ bt_ring_read_pos' = 0
          /\ bt_ring_fill' = 0
          /\ resets' = resets + 1
          /\ bt_read_running' = TRUE
          /\ bt_threads' = Append(bt_threads, "loop")
     ELSE /\ bt_input' = None
          /\ bt_enabled' = FALSE
          /\ UNCHANGED <<bt_ring_write_pos, bt_ring_read_pos, bt_ring_fill,
                         resets, bt_read_running, bt_threads>>
  /\ UNCHANGED <<bt_ring_buffer, bt_stereo, captured, delivered,
                 underrun_count, underrun_log, consecutive_errors, device,
                 last_read, failed_reads, sequencerVars, preemptive>>

\* bt-remove-device of the current device, lines 1241-1245: the flag is
\* cleared and the thread joined
RemoveDeviceStop ==
  /\ joining = "none"
  /\ bt_read_running
  /\ bt_read_running' = FALSE
  /\ joining' = "remove"
  /\ UNCHANGED <<bt_threads, bt_input, bt_enabled, consecutive_errors, device,
                 last_read, failed_reads, ringVars, sequencerVars, preemptive>>

\* lines 1247-1255: the handle is closed and cleared
RemoveDeviceClose ==
  /\ joining = "remove"
  /\ JoinReturns
  /\ joining' = "none"
  /\ bt_input' = None
  /\ bt_enabled' = FALSE
  /\ UNCHANGED <<bt_threads, bt_read_running, consecutive_errors, device,
                 last_read, failed_reads, ringVars, sequencerVars, preemptive>>

NextThreads ==
  \/ SetupBluetoothStop
  \/ \E ok \in BOOLEAN : SetupBluetoothOpen(ok)
  \/ RemoveDeviceStop
  \/ RemoveDeviceClose
  \/ \E t \in 1..Len(bt_threads), outcome \in ReadOutcomes, m \in 1..BLOCK,
        raises \in BOOLEAN : BtThreadLoop(t, outcome, m, raises)
  \/ \E t \in 1..Len(bt_threads) : BtThreadWakes(t)

\* the capture threads with the asyncio thread that stops and starts them
SpecThreads == Init /\ [][NextThreads]_vars

\* ---- the mixer: WebSocketHandler.handle_set_mix ----
\* the data of a set-mix message: "value" an integer, missing, or no number
MixData ==
  {[kind |-> "int", value |-> v] : v \in -1..101}
    \cup {[kind |-> "missing", value |-> 0], [kind |-> "bad", value |-> 0]}

\* line 1748: x = max(0, min(100, int(data.get("value", 50))))
MixValue(data) ==
  LET v == IF data.kind = "missing" THEN 50 ELSE data.value
  IN Max(0, Min(100, v))

\* handle_set_mix, lines 1746-1760
SetMix(data) ==
  /\ IF data.kind = "bad"
     THEN /\ mix_reply' = "error:bad-mix"
          /\ UNCHANGED <<bt_gain, therapy_gain, last_mix>>
     ELSE LET x == MixValue(data)
              g_music_amp == MixCos(x)
              g_therapy_amp == MixSin(x)
          IN /\ bt_gain' = Round4(g_music_amp)
             /\ therapy_gain' = g_therapy_amp
             /\ last_mix' = x
             /\ mix_reply' = "ack:set-mix"
  /\ UNCHANGED <<playerVars, wifiVars, handlerVars, engineVars, obsVars, wire,
                 mixed_signal, helperVars, clientVars, sinkVars, preemptive,
                 ringVars, captureVars>>

NextMix == \E data \in MixData : SetMix(data)

\* the mixer gains under set-mix
SpecMix == Init /\ [][NextMix]_vars

\* g_music^2 + g_therapy^2 in units of 1e-8, the gains split into their
\* 1e-4 parts so that every product stays a machine integer
SumOfSquares(g_music, g_therapy) ==
  LET a == g_music \div 10000
      a0 == g_music % 10000
      b == g_therapy \div 10000
      b0 == g_therapy % 10000
  IN a * a + (2 * a * a0) \div 10000 + (a0 * a0) \div GAIN_ONE
     + b * b + (2 * b * b0) \div 10000 + (b0 * b0) \div GAIN_ONE

\* apply_dual_strength that cuts the scaled value off instead of rounding it
ApplyDualStrengthTruncates(m_val, u_val) ==
  LET m == Clamp(m_val, 0, 9)
  IN IF u_val = None THEN m
     ELSE LET u == Clamp(Get(u_val), 0, 9)
          IN IF u = 5 THEN m
             ELSE IF u < 5 THEN Max(0, (m * u) \div 5)
             ELSE Min(9, (m * (5 + (u - 5))) \div 5)

\* apply_dual_strength(matrix_val, user_val), lines 52-64, with the default
\* limits 0 and 9; scale = user_val / 5.0, resp. 1.0 + (user_val - 5) / 5.0,
\* is kept as a fraction over 5
ApplyDualStrength(m_val, u_val) ==
  LET m == Clamp(m_val, 0, 9)
  IN IF u_val = None THEN m
     ELSE LET u == Clamp(Get(u_val), 0, 9)
          IN IF u = 5 THEN m
             ELSE IF u < 5 THEN Max(0, Round(m * u, 5))
             ELSE Min(9, Round(m * (5 + (u - 5)), 5))

\* scaled_amp whose upper branch takes the headroom away instead of adding it
ScaledAmpSignSlip(s_step, t_step) ==
  LET st == Clamp(s_step, 0, 9)
      tr == Clamp(t_step, 0, 9)
      base == st * 10
  IN IF tr = 5 THEN base
     ELSE IF tr < 5 THEN base - (5 - tr) * (base \div 5)
     ELSE base - (tr - 5) * ((90 - base) \div 5)

\* scaled_amp(strength_step, trim_step), lines 66-76: amp, the numerator of
\* the amp / 90.0 it returns; base and 90 - base are multiples of 10, so
\* base / 5 and (90 - base) / 5 are whole
ScaledAmp(s_step, t_step) ==
  LET st == Clamp(s_step, 0, 9)
      tr == Clamp(t_step, 0, 9)
      base == st * 10
  IN IF tr = 5 THEN base
     ELSE IF tr < 5 THEN base - (5 - tr) * (base \div 5)
     ELSE base + (tr - 5) * ((90 - base) \div 5)

\* the arguments tried
StepArgs == (0 - ArgMargin)..(9 + ArgMargin)

InitDual ==
  /\ InitPlayer /\ InitRoute /\ InitUntraced /\ preemptive = FALSE
  /\ matrix_val \in StepArgs
  /\ user_val \in {None} \cup {Some(u) : u \in StepArgs}
  /\ dual_strength = None
  /\ strength_step = 0 /\ trim_step = 0 /\ amp = None

\* the call dual_strength = apply_dual_strength(matrix_val, user_val)
CallApplyDualStrength ==
  /\ dual_strength = None
  /\ dual_strength' = Some(ApplyDualStrength(matrix_val, user_val))
  /\ UNCHANGED <<matrix_val, user_val, strength_step, trim_step, amp,
                 playerVars, wifiVars, handlerVars, engineVars, obsVars, wire,
                 mixVars, mixed_signal, routeVars, clientVars, sinkVars,
                 preemptive, ringVars, captureVars>>

SpecDual == InitDual /\ [][CallApplyDualStrength]_vars

InitAmp ==
  /\ InitPlayer /\ InitRoute /\ InitUntraced /\ preemptive = FALSE
  /\ strength_step \in StepArgs
  /\ trim_step \in StepArgs
  /\ amp = None
  /\ matrix_val = 0 /\ user_val = None /\ dual_strength = None

\* the call amp = scaled_amp(strength_step, trim_step)
CallScaledAmp ==
  /\ amp = None
  /\ amp' = Some(ScaledAmp(strength_step, trim_step))
  /\ UNCHANGED <<strength_step, trim_step, matrix_val, user_val, dual_strength,
                 playerVars, wifiVars, handlerVars, engineVars, obsVars, wire,
                 mixVars, mixed_signal, routeVars, clientVars, sinkVars,
                 preemptive, ringVars, captureVars>>

SpecAmp == InitAmp /\ [][CallScaledAmp]_vars

\* ---- speaker routing: MODE_ROUTING and _route_audio_to_speakers ----
CHANNELS == 8

\* a routing table whose mode 7 feeds speaker 5 twice and speaker 4 never
ModeRoutingSlip ==
  [mode \in 0..7 |->
     CASE mode = 0 -> [o \in 0..3 |-> <<<<0, 1>>, <<2, 3>>, <<4, 5>>, <<6, 7>>>>[o + 1]]
       [] mode = 1 -> [o \in 0..3 |-> <<<<6, 7>>, <<4, 5>>, <<2, 3>>, <<0, 1>>>>[o + 1]]
       [] mode = 2 -> [o \in 0..3 |-> <<<<0, 2>>, <<4, 6>>, <<5, 7>>, <<1, 3>>>>[o + 1]]
       [] mode = 3 -> [o \in 0..3 |-> <<<<0, 2>>, <<1, 3>>, <<4, 6>>, <<5, 7>>>>[o + 1]]
       [] mode = 4 -> [o \in 0..3 |-> <<<<0, 1>>, <<6, 7>>, <<2, 3>>, <<4, 5>>>>[o + 1]]
       [] mode = 5 -> [o \in 0..3 |-> <<<<2, 3>>, <<4, 5>>, <<0, 1>>, <<6, 7>>>>[o + 1]]
       [] mode = 6 -> [o \in 0..3 |-> <<<<0, 3>>, <<1, 2>>, <<4, 7>>, <<5, 6>>>>[o + 1]]
       [] mode = 7 -> [o \in 0..3 |-> <<<<0, 6>>, <<1, 7>>, <<3, 5>>, <<2, 5>>>>[o + 1]]]

\* MODE_ROUTING, lines 34-42: mode -> logical output -> list of speakers
MODE_ROUTING ==
  [mode \in 0..7 |->
     CASE mode = 0 -> [o \in 0..3 |-> <<<<0, 1>>, <<2, 3>>, <<4, 5>>, <<6, 7>>>>[o + 1]]
       [] mode = 1 -> [o \in 0..3 |-> <<<<6, 7>>, <<4, 5>>, <<2, 3>>, <<0, 1>>>>[o + 1]]
       [] mode = 2 -> [o \in 0..3 |-> <<<<0, 2>>, <<4, 6>>, <<5, 7>>, <<1, 3>>>>[o + 1]]
       [] mode = 3 -> [o \in 0..3 |-> <<<<0, 2>>, <<1, 3>>, <<4, 6>>, <<5, 7>>>>[o + 1]]
       [] mode = 4 -> [o \in 0..3 |-> <<<<0, 1>>, <<6, 7>>, <<2, 3>>, <<4, 5>>>>[o + 1]]
       [] mode = 5 -> [o \in 0..3 |-> <<<<2, 3>>, <<4, 5>>, <<0, 1>>, <<6, 7>>>>[o + 1]]
       [] mode = 6 -> [o \in 0..3 |-> <<<<0, 3>>, <<1, 2>>, <<4, 7>>, <<5, 6>>>>[o + 1]]
       [] mode = 7 -> [o \in 0..3 |-> <<<<0, 6>>, <<1, 7>>, <<3, 5>>, <<2, 4>>>>[o + 1]]]

\* the speakers of a speaker list
Speakers(speaker_list) == {speaker_list[i] : i \in 1..Len(speaker_list)}

\* _route_audio_to_speakers(audio_outputs, mode), lines 1036-1046, for one
\* sample: a speaker no list names stays 0, a speaker two lists name keeps
\* what the later output (the dict is walked in the order 0, 1, 2, 3) wrote
RouteAudioToSpeakers(audio_outputs, mode) ==
  LET routing == MODE_ROUTING[IF mode \in DOMAIN MODE_ROUTING THEN mode ELSE 0]
      Writers(speaker_idx) ==
        {output_idx \in DOMAIN routing :
           /\ output_idx < Len(audio_outputs)
           /\ speaker_idx \in Speakers(routing[output_idx])}
  IN [speaker_idx \in 0..(CHANNELS - 1) |->
        IF Writers(speaker_idx) = {} THEN 0
        ELSE LET last == CHOOSE o \in Writers(speaker_idx) :
                           \A w \in Writers(speaker_idx) : w <= o
             IN audio_outputs[last + 1]]

\* the modes and the samples tried: every order of four different samples
RouteModes == (0 - 1)..MaxMode
OutputInputs ==
  {a \in [1..4 -> 1..4] : \A i, j \in 1..4 : a[i] = a[j] => i = j}

InitRouting ==
  /\ InitPlayer /\ InitGain /\ InitUntraced /\ preemptive = FALSE
  /\ route_mode \in RouteModes
  /\ modulated_outputs \in OutputInputs
  /\ speaker_signals = None

\* lines 452-455: the envelope modes 8, 9 and 10 are routed as mode 0
CallRouteAudioToSpeakers ==
  /\ speaker_signals = None
  /\ speaker_signals' =
       Some(IF route_mode \in {8, 9, 10}
            THEN RouteAudioToSpeakers(modulated_outputs, 0)
            ELSE RouteAudioToSpeakers(modulated_outputs, route_mode))
  /\ UNCHANGED <<route_mode, modulated_outputs, gainVars,
                 playerVars, wifiVars, handlerVars, engineVars, obsVars, wire,
                 mixVars, mixed_signal, clientVars, sinkVars, preemptive,
                 ringVars, captureVars>>

SpecRouting == InitRouting /\ [][CallRouteAudioToSpeakers]_vars

\* ---- the states of the sequencer (spec section 4.I) ----
Idle == row = None /\ ~is_paused
PlayingSingle == row # None /\ ~is_playing_sequence /\ ~is_paused
PlayingSequence ==
  /\ row # None
  /\ is_playing_sequence
  /\ sequence_rows # None
  /\ current_row_index < Len(sequence_rows)
  /\ ~is_paused
Paused == is_paused /\ row # None

StateCount ==
  (IF Idle THEN 1 ELSE 0) + (IF PlayingSingle THEN 1 ELSE 0)
  + (IF PlayingSequence THEN 1 ELSE 0) + (IF Paused THEN 1 ELSE 0)

\* C1: at every block boundary the player is in exactly one of Idle,
\* PlayingSingle, PlayingSequence and Paused; is_paused is never set with no
\* active row, and is_playing_sequence never with no sequence list.
C1_ExactlyOneState ==
  /\ pc = "idle" => StateCount = 1
  /\ ~(is_paused /\ row = None)
  /\ ~(is_playing_sequence /\ sequence_rows = None)

\* everything stop() clears
IdleClean ==
  /\ row = None
  /\ sequence_rows = None
  /\ ~is_playing_sequence
  /\ ~is_paused
  /\ ~pause_requested
  /\ ~resume_requested
  /\ saved_state = None
  /\ fade_samples_remaining = 0
  /\ fade_direction = 0
  /\ fade_multiplier = 0

\* a step of play_row, or of a play_sequence with a valid row
PlayStep == pc' = pc /\ row' # None /\ elapsed' = 0

\* C2: the state stop() leaves (row, sequence, pause flags, snapshot and fade
\* all cleared) lasts until the next play command and no block carries therapy
\* signal meanwhile, wherever in the engine's tick stop() ran.
C2_StopStaysIdle ==
  [][(IdleClean /\ ~PlayStep) => (IdleClean' /\ therapy' = None)]_vars

Highlights(j) == [i \in 1..j |-> i - 1]

\* C4: the frames sent since a sequence was started are highlight:0,
\* highlight:1, ... in order, each once, and clear:highlight only after the
\* last of them.
C4_HighlightsInOrder ==
  \E j \in 0..MaxSeqLen :
    \/ wire = Highlights(j)
    \/ j > 0 /\ wire = Append(Highlights(j), CLEAR)

StopStep == pc' = pc /\ row' = None /\ saved_state' = None /\ ~is_paused'

\* C6: a pending pause request is only ever discharged by stop or by entering
\* Paused with the snapshot of the paused row stored and sent as
\* treatment-state followed by pause:complete.
C6_PauseLeadsToPaused ==
  [][(pause_requested /\ ~pause_requested') =>
       \/ StopStep
       \/ /\ Paused'
          /\ saved_state' # None
          /\ Get(saved_state').row_data = Get(row')
          /\ Len(message_queue') >= 2
          /\ message_queue'[Len(message_queue') - 1] =
               <<"treatment-state", Get(saved_state')>>
          /\ message_queue'[Len(message_queue')] = <<"pause:complete">>]_vars

\* the live player, in the shape of a snapshot
Live ==
  [row_data |-> Get(row),
   elapsed_time |-> elapsed,
   sequence_rows |-> sequence_rows,
   current_row_index |-> current_row_index,
   is_playing_sequence |-> is_playing_sequence,
   phase_accum |-> phase_accum,
   mod_phase_accum |-> mod_phase_accum]

\* C7: the snapshot stored when a pause latches holds the live row, sequence
\* list, index, is-sequence flag, both phases and the elapsed time; the tick
\* that takes up a resume makes exactly these live again, whatever the clock
\* did meanwhile, in the same Playing* state, with a fade-in from multiplier
\* 0, and queues resume:complete.
C7_ResumeRestoresSnapshot ==
  /\ [][(pc = "latched" /\ saved_state' # None) =>
          (row' # None /\ Get(saved_state') = Live')]_vars
  /\ [][(pc = "resume" /\ resume_requested /\ saved_state # None) =>
          /\ row' # None /\ Live' = Get(saved_state)
          /\ IF Get(saved_state).is_playing_sequence
             THEN PlayingSequence' ELSE PlayingSingle'
          /\ fade_direction' = 1 /\ fade_multiplier' = 0
          /\ fade_samples_remaining' = FADE_SAMPLES
          /\ message_queue' = Append(message_queue, <<"resume:complete">>)]_vars

\* C7 witness: a sequence paused on row 1 after some blocks has just been
\* resumed, a clock-time after the snapshot was taken
C7_Witness ==
  /\ pc = "gen" /\ row_resumed /\ PlayingSequence /\ current_row_index = 1
  /\ saved_state # None /\ Live = Get(saved_state)
  /\ phase_accum # 0 /\ mod_phase_accum # 0 /\ elapsed > 0
  /\ fade_direction = 1 /\ fade_multiplier = 0
  /\ message_queue # <<>>
  /\ message_queue[Len(message_queue)] = <<"resume:complete">>

Abs(x) == IF x < 0 THEN -x ELSE x

\* the tick finds the row's time used up; SynthTime is the time the row was
\* synthesized for
RowCompletes == pc = "rowend" /\ RowTimeUp(loc_t0, Get(loc_row).time)
SynthTime == row_blocks * BLOCK

Removed ==
  IF bt_ring_fill' < bt_ring_fill /\ resets' = resets
  THEN bt_ring_fill - bt_ring_fill' ELSE 0

\* C9: whatever the order of the writes, the reads and the resets, 0 <= fill
\* <= capacity and write_pos = (read_pos + fill) mod capacity; a read takes no
\* more frames than the ring holds, nor than were asked for.
C9_RingBounds ==
  /\ [](bt_ring_fill \in 0..RING_CAP)
  /\ [](bt_ring_read_pos \in 0..(RING_CAP - 1))
  /\ [](bt_ring_write_pos = (bt_ring_read_pos + bt_ring_fill) % RING_CAP)
  /\ [][Removed > 0 =>
          /\ Removed <= bt_ring_fill
          /\ Removed <= Len(bt_stereo')
          /\ bt_ring_read_pos' = (bt_ring_read_pos + Removed) % RING_CAP
          /\ UNCHANGED bt_ring_write_pos]_vars

\* C9 witness: the ring is full, has wrapped around, after a reset and a read
\* that found less than it asked for
C9_Witness ==
  /\ bt_ring_fill = RING_CAP /\ bt_ring_read_pos > 0
  /\ resets > 0 /\ delivered > 0
  /\ bt_stereo # <<>> /\ bt_stereo[Len(bt_stereo)] = 0 /\ bt_stereo[1] > 0

\* C10: a frame written to a full ring drops the oldest unread frame (read
\* and write position advance by one, fill stays at capacity); the ring holds
\* the most recent frames in the order written, and a read delivers the
\* oldest of them in that order, each later than any frame delivered before.
C10_OverflowDropsOldest ==
  /\ [](\A i \in 0..(bt_ring_fill - 1) :
          bt_ring_buffer[(bt_ring_read_pos + i) % RING_CAP]
            = captured - bt_ring_fill + 1 + i)
  /\ [](delivered <= captured - bt_ring_fill)
  /\ [][(captured' = captured + 1 /\ bt_ring_fill = RING_CAP) =>
          /\ bt_ring_read_pos' = (bt_ring_read_pos + 1) % RING_CAP
          /\ bt_ring_write_pos' = (bt_ring_write_pos + 1) % RING_CAP
          /\ bt_ring_fill' = RING_CAP
          /\ bt_ring_buffer'[bt_ring_write_pos] = captured']_vars
  /\ [][Removed > 0 =>
          /\ \A i \in 1..Removed :
               bt_stereo'[i] = captured - bt_ring_fill + i
          /\ bt_stereo'[1] > delivered
          /\ delivered' = bt_stereo'[Removed]]_vars

\* C10 witness: the first read comes after the ring has overflowed, and
\* starts with the oldest frame that was not dropped
C10_Witness ==
  /\ captured > RING_CAP /\ resets = 0
  /\ bt_stereo # <<>> /\ bt_stereo[1] = captured - RING_CAP + 1
  /\ delivered = bt_stereo[1] + Len(bt_stereo) - 1

\* a step of _read_bt_from_ring
ReadStep ==
  /\ captured' = captured /\ resets' = resets
  /\ <<bt_stereo, bt_ring_fill, underrun_count, underrun_log>>'
       # <<bt_stereo, bt_ring_fill, underrun_count, underrun_log>>

\* the step counted an underrun: the counter went up by one, or the log
\* printed the count gone up by one and the counter restarted at 0
UnderrunIncremented ==
  \/ underrun_count' = Some(UnderrunCounted) /\ UNCHANGED underrun_log
  \/ underrun_count' = Some(0) /\ underrun_log' = UnderrunCounted

\* C11: a read of n frames returns n frames: the first min(n, fill) are the
\* oldest unread frames in the order written (across the end of the buffer
\* too), the others are zero; fill goes down by min(n, fill); the underrun
\* counter is incremented exactly when fill < n.
C11_ReadReturnsN ==
  [][ReadStep =>
       LET n == Len(bt_stereo')
           k == Min(n, bt_ring_fill)
       IN /\ n >= 1
          /\ \A i \in 1..k :
               /\ bt_stereo'[i] = bt_ring_buffer[(bt_ring_read_pos + i - 1) % RING_CAP]
               /\ bt_stereo'[i] = captured - bt_ring_fill + i
          /\ \A i \in (k + 1)..n : bt_stereo'[i] = 0
          /\ bt_ring_fill' = bt_ring_fill - k
          /\ bt_ring_read_pos' = (bt_ring_read_pos + k) % RING_CAP
          /\ IF bt_ring_fill < n
             THEN UnderrunIncremented
             ELSE UNCHANGED <<underrun_count, underrun_log>>]_vars

\* C11 witness: a read of three frames found two, the first in the last
\* slot of the buffer and the second in the first, and counted an underrun
\* that was logged
C11_Witness ==
  /\ Len(bt_stereo) = 3 /\ bt_stereo[1] > 0 /\ bt_stereo[3] = 0
  /\ bt_stereo[2] = bt_stereo[1] + 1
  /\ bt_ring_buffer[RING_CAP - 1] = bt_stereo[1]
  /\ bt_ring_buffer[0] = bt_stereo[2]
  /\ bt_ring_read_pos = 1 /\ bt_ring_fill = 0
  /\ underrun_count = Some(0) /\ underrun_log = 2

\* C12: after a read of the capture thread that returned (None, None) or
\* raised naming the loss of the device, and after MAX_CONSECUTIVE_ERRORS or
\* more failed reads in a row, the capture is torn down: bt_input is None and
\* bt_enabled is false.
C12_DeviceLossTearsDown ==
  (last_read \in {"none", "lost"} \/ failed_reads >= MAX_CONSECUTIVE_ERRORS)
    => (bt_input = None /\ ~bt_enabled)

\* C13: the block of a tick that ends with no active row or with the player
\* Paused is mixed with the aux block at the music gain: it is not the all-zero
\* block.
C13_AuxAlwaysMixed ==
  [][(pc = "mix" /\ pc' = "idle" /\ (row = None \/ is_paused)) =>
       /\ mixed_signal' # None
       /\ Get(mixed_signal').music_gain = bt_gain
       /\ Get(mixed_signal').music_gain > 0]_vars

\* C17: after set-mix 0 the aux gain is 0 and the therapy gain 1, after
\* set-mix 100 the therapy gain is 0 and the aux gain 1, after set-mix 50 the
\* two gains are equal.
C17_MixEndpoints ==
  /\ last_mix = 0 => (bt_gain = 0 /\ therapy_gain = GAIN_ONE)
  /\ last_mix = 100 => (therapy_gain = 0 /\ bt_gain = GAIN_ONE)
  /\ last_mix = 50 => bt_gain = therapy_gain

\* C18: the stored gains satisfy g_music^2 + g_therapy^2 = 1 within 1e-6,
\* before any set-mix and after every set-mix.
C18_EqualPower ==
  Abs(SumOfSquares(bt_gain, therapy_gain) - GAIN_ONE) <= GAIN_ONE \div 1000000

\* C14: for a row longer than FADE_TIME played without pause, the fade-out
\* is on from the first tick that reads an elapsed time >= time - FADE_TIME
\* (as much of its window left as the row has time left), and when the row
\* ends the fade-out has run its whole window and the envelope is at 0.
C14_FadeOutRunsFull ==
  /\ (/\ pc = "rowend"
      /\ Get(loc_row).time > FADE_TIME
      /\ loc_t0 >= Get(loc_row).time - FADE_TIME
      /\ loc_t0 < Get(loc_row).time)
       => (/\ fade_direction = -1
           /\ fade_samples_remaining = Get(loc_row).time - loc_t0)
  /\ (RowCompletes /\ Get(loc_row).time > FADE_TIME)
       => (/\ fade_direction = 0
           /\ fade_samples_remaining = 0
           /\ fade_multiplier = 0)

\* the last sample of an envelope
LastSample(env) == env[Len(env)]

\* a step that synthesizes a block of the active row
SynthStep == pc = "synth" /\ pc' = "mix" /\ row # None

\* C15: the envelope of a fade-in block is nondecreasing and that of a
\* fade-out block nonincreasing, within the block and from the last sample
\* of the fade's previous block; the first sample of a fade-in is 0 and
\* the last sample of the block that completes a fade-out is 0.
C15_FadeMonotone ==
  [][(SynthStep /\ fade_direction # 0 /\ fade_samples_remaining > 0) =>
       LET env == fade_envelope'
           first_block == fade_samples_remaining = FADE_SAMPLES
       IN /\ fade_direction = 1 =>
               /\ \A i \in 1..(BLOCK - 1) : env[i] <= env[i + 1]
               /\ first_block => env[1] = 0
               /\ ~first_block => LastSample(fade_envelope) <= env[1]
          /\ fade_direction = -1 =>
               /\ \A i \in 1..(BLOCK - 1) : env[i] >= env[i + 1]
               /\ ~first_block => LastSample(fade_envelope) >= env[1]
               /\ fade_samples_remaining' = 0 => LastSample(env) = 0]_vars

\* C16: at the end of every block fade_multiplier is the envelope value of
\* the block's last sample, also in the block that completes a fade; starting
\* a fade-out leaves fade_multiplier at that value.
C16_MultiplierIsLastSample ==
  /\ [][SynthStep => fade_multiplier' = LastSample(fade_envelope')]_vars
  /\ [][(fade_direction' = -1 /\ fade_samples_remaining' = FADE_SAMPLES
          /\ fade_samples_remaining # FADE_SAMPLES)
         => fade_multiplier' = fade_multiplier]_vars

\* C19: apply_dual_strength returns an integer in 0..9; with no user value
\* and with user value 5 it returns the baseline clamped to 0..9; with a
\* (clamped) user value u below 5 the integer nearest to clamp(m) * u / 5;
\* with u above 5 the integer nearest to clamp(m) * (1 + (u - 5) / 5), at
\* most 9.
C19_DualStrength ==
  dual_strength # None =>
    LET m == Clamp(matrix_val, 0, 9)
        r == Get(dual_strength)
    IN /\ r \in 0..9
       /\ user_val = None => r = m
       /\ user_val # None =>
            LET u == Clamp(Get(user_val), 0, 9)
            IN /\ u = 5 => r = m
               /\ u < 5 => 2 * Abs(5 * r - m * u) < 5
               /\ u > 5 =>
                    \/ r < 9 /\ 2 * Abs(5 * r - m * u) < 5
                    \/ r = 9 /\ 2 * m * u > 5 * 17

\* C19 witness: a baseline and a user value outside 0..9 (both clamped to
\* 9) give 9; so do the calls that round up (3, 4 -> 2) and down (3, 7 -> 4)
C19_Witness ==
  \/ matrix_val = 12 /\ user_val = Some(11) /\ dual_strength = Some(9)
  \/ matrix_val = 3 /\ user_val = Some(4) /\ dual_strength = Some(2)
  \/ matrix_val = 3 /\ user_val = Some(7) /\ dual_strength = Some(4)

\* C20: for a trim in 0..9 scaled_amp does not go down when the strength
\* goes up within 0..9; for a strength from 5 up it does not go down when
\* the trim goes up within 0..9.
C20_ScaledAmpMonotone ==
  (amp # None /\ strength_step \in 0..9 /\ trim_step \in 0..9) =>
    /\ Get(amp) \in 0..90
    /\ \A m \in strength_step..9 : ScaledAmp(m, trim_step) >= Get(amp)
    /\ strength_step >= 5 =>
         \A t \in trim_step..9 : ScaledAmp(strength_step, t) >= Get(amp)

\* C20 witness: strength 5 with trim 9 gives amp 82 (of 90)
C20_Witness == strength_step = 5 /\ trim_step = 9 /\ amp = Some(82)

\* the table a mode is routed with
RoutingOf(mode) == MODE_ROUTING[IF mode \in 0..7 THEN mode ELSE 0]

\* C21: for every mode (8, 9, 10 and unknown modes are routed as mode 0)
\* each of the four logical outputs feeds at least one speaker and every
\* speaker 0..7 is fed by exactly one logical output.
C21_RoutingPartition ==
  speaker_signals # None =>
    /\ \A o \in 0..3 :
         \E sp \in 0..7 : Get(speaker_signals)[sp] = modulated_outputs[o + 1]
    /\ \A sp \in 0..7 :
         /\ Cardinality({o \in 0..3 : sp \in Speakers(RoutingOf(route_mode)[o])}) = 1
         /\ \A o \in 0..3 :
              sp \in Speakers(RoutingOf(route_mode)[o]) =>
                Get(speaker_signals)[sp] = modulated_outputs[o + 1]
    /\ route_mode \notin 0..7 =>
         Get(speaker_signals) = RouteAudioToSpeakers(modulated_outputs, 0)

\* C21 witness: mode 7 routed (output 0 on speaker 6, output 3 on speaker
\* 4), and mode 9 routed with the table of mode 0
C21_Witness ==
  /\ speaker_signals # None
  /\ modulated_outputs = <<1, 2, 3, 4>>
  /\ \/ route_mode = 7 /\ Get(speaker_signals)[6] = 1 /\ Get(speaker_signals)[4] = 4
     \/ route_mode = 9 /\ Get(speaker_signals)[1] = 1 /\ Get(speaker_signals)[7] = 4

\* the fields of the player a command may change
PlayerState == <<row, seqVars, last_notified_row, fadeVars, elapsed, pauseVars,
                 phaseVars>>

\* C22: a play-all whose rows are all dropped at load is answered with
\* error:nothing-to-play and leaves the player state unchanged.
C22_EmptyPlayAllRefused ==
  [][(\E rows \in SequenceInputs :
        ValidRows(rows) = <<>> /\ PlaySequence(rows))
     => (ws_sent' = "error:nothing-to-play" /\ UNCHANGED PlayerState)]_vars

\* a pause command that finds no row active, the player Paused or a pause
\* pending
IdlePause == RequestPause /\ ~(row # None /\ ~is_paused /\ ~pause_requested)

\* C23: a pause command received when no row is active, when already Paused
\* or when a pause is pending changes no player state (no fade-out started,
\* no snapshot taken), is answered with ack:pause, and queues no
\* pause:complete: the engine queues one only for a pause that was pending.
C23_IdlePauseIsNoop ==
  [][/\ IdlePause => (UNCHANGED PlayerState /\ ws_sent' = "ack:pause")
     /\ (Len(message_queue') > Len(message_queue)
         /\ message_queue'[Len(message_queue')] = <<"pause:complete">>)
        => pause_requested]_vars

\* C23 witness: the last message was a pause and the player is neither
\* Paused nor has a pause pending nor a row: the pause found no row
C23_Witness ==
  /\ ws_sent = "ack:pause"
  /\ row = None /\ ~is_paused /\ ~pause_requested /\ saved_state = None

\* C24: a resume without resumeState is answered with ack:resume; when the
\* player is Paused with a snapshot it requests the restore of the engine's
\* own snapshot, which the next tick restores the row from before it queues
\* resume:complete; otherwise it changes no player state, and resume:complete
\* is queued only by a tick that found a resume requested.
C24_ResumeUsesSnapshot ==
  [][/\ RequestResume =>
          /\ ws_sent' = "ack:resume"
          /\ IF is_paused /\ saved_state # None
             THEN resume_requested' /\ saved_state' = saved_state
             ELSE UNCHANGED PlayerState
     /\ (Len(message_queue') > Len(message_queue)
         /\ message_queue'[Len(message_queue')] = <<"resume:complete">>)
        => /\ resume_requested /\ saved_state # None
           /\ row' = Some(Get(saved_state).row_data)]_vars

\* C24 witness: the last message was a resume and the engine has restored
\* the snapshot's row and queued resume:complete
C24_Witness ==
  /\ ws_sent = "ack:resume"
  /\ row # None /\ row_resumed /\ saved_state # None
  /\ row = Some(Get(saved_state).row_data)
  /\ message_queue # <<>>
  /\ message_queue[Len(message_queue)] = <<"resume:complete">>

\* C25: a message that is not valid JSON, and likewise valid JSON that is
\* not an object, is answered with error:badjson, and a message with an
\* unrecognised action with error:unknown; the connection stays open and the
\* player state is unchanged.
C25_BadMessagesAnswered ==
  [][\A msg \in OtherMessages :
       HandleOther(msg) =>
         /\ ws_open'
         /\ ws_sent' = (IF msg.kind = "object" THEN "error:unknown"
                        ELSE "error:badjson")
         /\ UNCHANGED PlayerState]_vars

\* C26: ensure_stream called while a live sink process and a running engine
\* loop exist starts no sink process and no loop thread, and at no time is
\* more than one thread inside the engine loop, also across a loop exit and
\* a restart.
C26_EnsureStreamIdempotent ==
  [][/\ (alsa_process = "alive" /\ LoopRunning)
        => (alsa_spawned' = alsa_spawned /\ threads_started' = threads_started)
     /\ audio_loops' <= 1]_vars

\* C26 witness: the sink process ended, the loop left and both were started
\* again: the second process is alive and the second thread is in the loop
C26_Witness ==
  /\ alsa_spawned = 2 /\ threads_started = 2
  /\ alsa_process = "alive" /\ audio_loops = 1 /\ audio_exiting = 0

\* a step that starts an engine-loop thread without giving the player a new
\* row
LoopRestart == threads_started' > threads_started /\ row' = row

\* C27: when the sink process ends the engine loop halts without modifying
\* the active row; when the loop is restarted with the preserved row, the
\* row resumes with a fresh fade-in (fade multiplier 0, a full fade-in
\* window ahead).
C27_FreshFadeInAfterRestart ==
  [][/\ audio_loops' < audio_loops => row' = row
     /\ (LoopRestart /\ row # None)
        => /\ fade_multiplier' = 0
           /\ fade_direction' = 1
           /\ fade_samples_remaining' = FADE_SAMPLES]_vars

\* the blocks of a queue are in the order of their arrival
InArrivalOrder(q) == \A i \in 1..(Len(q) - 1) : q[i] < q[i + 1]

\* a tick of the engine in WiFi-stream mode
WifiTick == pc = "idle" /\ pc' # "idle" /\ wifi_stream_enabled

\* C28: the block queue never holds more than 10 blocks; a push onto a full
\* queue is answered with queue-full and a block of the wrong size with
\* size-mismatch, both leaving the queue unchanged; a tick in WiFi-stream
\* mode drops the oldest blocks until at most 3 remain and then consumes the
\* oldest remaining one, so blocks are played in arrival order; a tick that
\* finds the queue empty has an all-zero therapy block.
C28_WifiQueue ==
  [][/\ Len(wifi_audio_queue') <= WIFI_QUEUE_MAX
     /\ InArrivalOrder(wifi_audio_queue')
     /\ WifiStreamData("short") =>
          /\ ws_sent' = "error:wifi-stream-data:size-mismatch"
          /\ wifi_audio_queue' = wifi_audio_queue
     /\ (WifiStreamData("block") /\ Len(wifi_audio_queue) = WIFI_QUEUE_MAX) =>
          /\ ws_sent' = "error:wifi-stream-data:queue-full"
          /\ wifi_audio_queue' = wifi_audio_queue
     /\ WifiTick =>
          LET dropped == Max(0, Len(wifi_audio_queue) - 3)
          IN IF wifi_audio_queue = <<>>
             THEN therapy' = None /\ wifi_audio_queue' = <<>>
             ELSE /\ therapy' = <<"wifi", wifi_audio_queue[dropped + 1]>>
                  /\ wifi_audio_queue' =
                       SubSeq(wifi_audio_queue, dropped + 2,
                              Len(wifi_audio_queue))
                  /\ Len(wifi_audio_queue') <= 2]_vars

\* C28 witness: a tick found the queue full (blocks 1..10), dropped seven
\* and plays block 8, leaving blocks 9 and 10
C28_Witness ==
  /\ wifi_stream_enabled /\ pc = "mix"
  /\ therapy = <<"wifi", 8>>
  /\ wifi_audio_queue = <<9, 10>>

\* something is queued for the client
NotificationQueued ==
  message_queue # <<>> \/ highlight_queue # <<>> \/ clear_highlight_pending

\* C29: every notification the engine queues (highlight:i, clear:highlight,
\* treatment-state, pause:complete, resume:complete) is eventually sent by
\* the periodic dispatcher, with no further client message needed.
C29_NotificationsEventuallySent ==
  NotificationQueued ~>
    (message_queue = <<>> /\ highlight_queue = <<>> /\ ~clear_highlight_pending)

\* the highlights and the clear alone are eventually sent
HighlightsEventuallySent ==
  (highlight_queue # <<>> \/ clear_highlight_pending) ~>
    (highlight_queue = <<>> /\ ~clear_highlight_pending)

\* C30: for the sine, the drum and the heartbeat envelope, the position in
\* the modulation cycle of the first sample of a block is the position
\* reached at the end of the row's previous block.
C30_EnvelopeContinuesAcrossBlocks ==
  [][(SynthStep /\ env_cycle # None /\ env_cycle' # None)
     => Get(env_cycle').first = Get(env_cycle).end]_vars

\* the number, counted from the start of the row, of the modulation period
\* that sample k (from 1) of the block just synthesized lies in
PeriodOfSample(k) ==
  ((row_blocks - 1) * BLOCK + (k - 1)) \div ModPeriod(therapy[3])

\* C31: in drum modes 8 and 9 with burst length N, the periods counted from
\* the start of the row are N periods with a beat followed by one silent
\* period: a sample of a block is silent exactly if its period number p has
\* p mod (N + 1) = N.
C31_BurstThenSilentPeriod ==
  (pc = "mix" /\ therapy # None /\ therapy[1] = "row"
     /\ RowMode(therapy[3]) \in {8, 9} /\ env_cycle # None)
  => \A k \in 1..BLOCK :
       Get(env_cycle).silent[k]
         <=> (PeriodOfSample(k) % (BurstLen(therapy[3]) + 1)
                = BurstLen(therapy[3]))

\* C32: every therapy block emitted while row r is the active row is
\* synthesized from r's own parameters; the block of the tick in which the
\* sequencer advances to row i+1 uses the parameters of row i+1, and after
\* that tick the carrier phase has advanced from 0 by row i+1's frequency.
C32_BlockUsesActiveRow ==
  (pc = "mix" /\ therapy # None /\ therapy[1] = "row")
  => /\ therapy[3] = therapy[2]
     /\ row_blocks = 1 =>
          phase_accum = (BLOCK * therapy[2].frequency) % TWO_PI

\* C33: whenever is_paused is set an active row and a saved snapshot exist,
\* so that a resume command can leave Paused; and pause:complete is never
\* queued without a snapshot having been saved.
C33_PausedHasRowAndSnapshot ==
  /\ is_paused => (row # None /\ saved_state # None)
  /\ (pc = "resume" /\ message_queue # <<>>
        /\ message_queue[Len(message_queue)] = <<"pause:complete">>)
     => saved_state # None

\* play_row, or play_sequence with at least one valid row
PlayCommand ==
  \/ \E r \in RowPool : PlayRow(r)
  \/ \E rows \in SequenceInputs : ValidRows(rows) # <<>> /\ PlaySequence(rows)

\* C34: play_row(r), or play_sequence with at least one valid row, issued in
\* any state (also in Paused and while a pause fade-out is pending) leaves the
\* player playing the new row: is_paused and pause_requested are false
\* afterwards, so the row is synthesized and not paused without a new pause
\* request.
C34_PlayLeavesPlaying ==
  [][PlayCommand => (row' # None /\ ~is_paused' /\ ~pause_requested')]_vars

\* C35: starting a fade-out never raises the envelope: the first envelope
\* sample of a fade-out, automatic or pause-triggered, is no greater than
\* the last envelope value emitted before it (also for a pause during a
\* fade-in or during a running fade-out, and for a fade-out triggered again
\* after one has completed).
C35_FadeOutNeverRaises ==
  [][(SynthStep /\ fade_direction = -1
        /\ fade_samples_remaining = FADE_SAMPLES /\ fade_envelope # <<>>)
     => fade_envelope'[1] <= LastSample(fade_envelope)]_vars

\* the tick's resume step finds a snapshot it cannot restore
FailedRestore ==
  /\ TickResume
  /\ resume_requested /\ saved_state # None /\ ~Restorable(Get(saved_state))

\* C36: a resume with a client-supplied snapshot that cannot be restored
\* leaves the player Paused with its active row, row timer and fade state
\* unchanged, and queues no resume:complete.
C36_FailedRestoreStaysPaused ==
  [][FailedRestore
     => /\ is_paused'
        /\ row' = row
        /\ elapsed' = elapsed
        /\ fadeVars' = fadeVars
        /\ message_queue' = message_queue]_vars

\* the capture threads that have not returned
LiveThreads == {t \in 1..Len(bt_threads) : bt_threads[t] # "done"}

\* C37: at any time at most one capture thread is running and writing to the
\* aux ring: after _setup_bluetooth_input or a device removal has cleared
\* bt_read_running and joined with its 2 s timeout, no earlier capture
\* thread is alive alongside a newly started one.
C37_OneCaptureThread == Cardinality(LiveThreads) <= 1

\* C38: no notification queued by the engine thread is lost or duplicated by
\* the dispatcher: in every interleaving of the engine's appends with the
\* copy-then-clear drain, what the clear removes from the queue is exactly
\* what the copy took to be sent.
C38_DrainLosesNothing ==
  [][ProcessQueuedClear => message_queue = Get(messages_to_send)]_vars

\* C39: the index carried by highlight:i is the playing row's position in
\* the rows list the client sent with play-all, also when the list holds
\* zero-time or zero-frequency rows: the highlight queued by play-all names
\* the position of the row that starts to play.
C39_HighlightIsClientPosition ==
  [][\A rows \in SequenceInputs :
       (PlaySequence(rows) /\ highlight_queue' # <<>>)
       => rows[highlight_queue'[Len(highlight_queue')] + 1] = Get(row')]_vars

\* C40: after stop is issued while a sequence is playing the client's row
\* highlight is cleared: a clear:highlight is queued for the stopped
\* sequence, and no highlight of it is left to be sent once the stop has been
\* acknowledged.
C40_StopClearsHighlight ==
  [][(Stop /\ is_playing_sequence)
     => (clear_highlight_pending' /\ highlight_queue' = <<>>)]_vars

====
